---------------------------- MODULE Spec2Model ----------------------------
(***************************************************************************)
(* A model of the IPRD ingestion-and-validation pipeline:                  *)
(*   scripts/generate_site_data.py  (playlist parser, station identity,    *)
(*                                   catalog aggregator)                   *)
(*   scripts/validate_streams.py    (stream prober, validation run)        *)
(*                                                                         *)
(* Text is modelled at character level: a Python str is a sequence of      *)
(* one-character strings, so that startswith, strip, split, find and the   *)
(* regular expressions are computed and not assumed.                       *)
(***************************************************************************)
EXTENDS Integers, Sequences, FiniteSets, Bags, TLC

(***************************************************************************)
(* Python str primitives over character sequences.                         *)
(***************************************************************************)

\* str.isspace() for the characters a playlist line can hold.
Whitespace == {" ", "\t", "\n", "\r"}

\* s[i-1:] in Python terms (1-based i): the suffix starting at position i.
From(s, i) == SubSeq(s, i, Len(s))

\* s.startswith(p, i-1): p occurs in s at position i.
IsAt(s, i, p) ==
    /\ i >= 1
    /\ i + Len(p) - 1 <= Len(s)
    /\ \A k \in 1..Len(p) : s[i + k - 1] = p[k]

\* s.startswith(p)
StartsWith(s, p) == IsAt(s, 1, p)

\* s.find(p, i-1) + 1: least position >= i where p occurs, 0 when none.
RECURSIVE Find(_, _, _)
Find(s, p, i) ==
    IF i + Len(p) - 1 > Len(s) THEN 0
    ELSE IF IsAt(s, i, p) THEN i
    ELSE Find(s, p, i + 1)

\* s.rfind(p) + 1: greatest position where p occurs, 0 when none.
RECURSIVE RFindFrom(_, _, _)
RFindFrom(s, p, i) ==
    IF i < 1 THEN 0
    ELSE IF IsAt(s, i, p) THEN i
    ELSE RFindFrom(s, p, i - 1)

RFind(s, p) == RFindFrom(s, p, Len(s) - Len(p) + 1)

\* p in s
Contains(s, p) == Find(s, p, 1) # 0

\* First position >= i of s whose character is not in chars (Len(s) + 1 if none).
RECURSIVE SkipForward(_, _, _)
SkipForward(s, i, chars) ==
    IF i > Len(s) \/ s[i] \notin chars THEN i ELSE SkipForward(s, i + 1, chars)

\* Last position <= i of s whose character is not in chars (0 if none).
RECURSIVE SkipBackward(_, _, _)
SkipBackward(s, i, chars) ==
    IF i < 1 \/ s[i] \notin chars THEN i ELSE SkipBackward(s, i - 1, chars)

\* s.strip(chars)
StripChars(s, chars) == SubSeq(s, SkipForward(s, 1, chars), SkipBackward(s, Len(s), chars))

\* s.strip()
Strip(s) == StripChars(s, Whitespace)

\* s.strip('-')
StripHyphens(s) == StripChars(s, {"-"})

\* s.split(sep) for a one-character separator: always at least one piece.
RECURSIVE Split(_, _)
Split(s, sep) ==
    LET k == Find(s, <<sep>>, 1)
    IN  IF k = 0 THEN <<s>>
        ELSE <<SubSeq(s, 1, k - 1)>> \o Split(From(s, k + 1), sep)

\* sep.join(parts)
RECURSIVE Join(_, _)
Join(parts, sep) ==
    IF parts = << >> THEN << >>
    ELSE IF Len(parts) = 1 THEN parts[1]
    ELSE parts[1] \o sep \o Join(Tail(parts), sep)

UpperLetters == <<"A","B","C","D","E","F","G","H","I","J","K","L","M",
                  "N","O","P","Q","R","S","T","U","V","W","X","Y","Z">>
LowerLetters == <<"a","b","c","d","e","f","g","h","i","j","k","l","m",
                  "n","o","p","q","r","s","t","u","v","w","x","y","z">>
Digits == <<"0","1","2","3","4","5","6","7","8","9">>

IndexIn(seq, c) == CHOOSE k \in 1..Len(seq) : seq[k] = c
InSeq(seq, c) == \E k \in 1..Len(seq) : seq[k] = c

\* str.lower() and str.upper(), one character at a time.
LowerChar(c) == IF InSeq(UpperLetters, c) THEN LowerLetters[IndexIn(UpperLetters, c)] ELSE c
UpperChar(c) == IF InSeq(LowerLetters, c) THEN UpperLetters[IndexIn(LowerLetters, c)] ELSE c
Lower(s) == [k \in 1..Len(s) |-> LowerChar(s[k])]
Upper(s) == [k \in 1..Len(s) |-> UpperChar(s[k])]

\* int(s) for a non-empty run of decimal digits.
RECURSIVE ParseInt(_)
ParseInt(s) ==
    IF s = << >> THEN 0
    ELSE 10 * ParseInt(SubSeq(s, 1, Len(s) - 1)) + (IndexIn(Digits, s[Len(s)]) - 1)


(***************************************************************************)
(* scripts/generate_site_data.py: tables and patterns.                     *)
(***************************************************************************)

\* Python's None, and the value of a variable that is not in use.
None == [is_none |-> TRUE]

\* AUDIO_FORMATS in dict order: <<extension, (format, default bitrate)>>.
AUDIO_FORMATS ==
    << <<<<"m","p","3">>, <<"MP3", 128>> >>,
       <<<<"a","a","c">>, <<"AAC", 128>> >>,
       <<<<"o","g","g">>, <<"OGG", 128>> >>,
       <<<<"f","l","a","c">>, <<"FLAC", 960>> >>,
       <<<<"m","4","a">>, <<"AAC", 128>> >>,
       <<<<"o","p","u","s">>, <<"OPUS", 96>> >>,
       <<<<"w","a","v">>, <<"WAV", 1411>> >> >>

\* ext in AUDIO_FORMATS
InAudioFormats(ext) == \E k \in 1..Len(AUDIO_FORMATS) : AUDIO_FORMATS[k][1] = ext

\* AUDIO_FORMATS[ext]
AudioFormat(ext) ==
    AUDIO_FORMATS[CHOOSE k \in 1..Len(AUDIO_FORMATS) : AUDIO_FORMATS[k][1] = ext][2]

\* FORMAT_IDENTIFIERS in dict order: <<format key, identifiers>>.
FORMAT_IDENTIFIERS ==
    << <<<<"m","p","3">>, <<<<"m","p","3">>, <<"m","p","e","g">>>> >>,
       <<<<"a","a","c">>, <<<<"a","a","c">>, <<"a","a","c","p">>, <<"h","e","-","a","a","c">>>> >>,
       <<<<"o","g","g">>, <<<<"o","g","g">>, <<"v","o","r","b","i","s">>>> >>,
       <<<<"f","l","a","c">>, <<<<"f","l","a","c">>>> >>,
       <<<<"o","p","u","s">>, <<<<"o","p","u","s">>>> >>,
       <<<<"w","a","v">>, <<<<"w","a","v">>, <<"p","c","m">>>> >> >>

\* The literal parts of EXTINF_PATTERN:
\*   tvg-logo="([^"]*)".*group-title="([^"]*)",(.*)
TvgLogoLit == <<"t","v","g","-","l","o","g","o","=","\"">>
GroupTitleLit == <<"g","r","o","u","p","-","t","i","t","l","e","=","\"">>
QuoteLit == <<"\"">>

\* The separators of BITRATE_PATTERNS: [-_/], [-_/.]
SepNoDot == {"-", "_", "/"}
SepDot == {"-", "_", "/", "."}

\* BITRATE_PATTERNS in list order: <<leading class, literal after the digits,
\* trailing class>>.  The patterns run on url.lower(), so IGNORECASE adds nothing.
BITRATE_PATTERNS ==
    << <<SepNoDot, <<"k">>, SepDot>>,
       <<SepNoDot, <<"k","b","p","s">>, SepDot>>,
       <<SepNoDot, <<"k","b">>, SepDot>>,
       <<SepDot, << >>, SepDot>> >>

IcecastLit == <<"i","c","e","c","a","s","t">>
ExtinfPrefix == <<"#","E","X","T","I","N","F",":">>
ExtM3uPrefix == <<"#","E","X","T","M","3","U">>
SlashSlash == <<"/", "/">>
HttpPrefix == <<"h","t","t","p",":","/","/">>
HttpsPrefix == <<"h","t","t","p","s",":","/","/">>
QueryFormatNames == {<<"f","o","r","m","a","t">>, <<"f","m","t">>, <<"t","y","p","e">>}

\* chr(32) .. chr(126); chr(96) is written "<grave>" (the lexer rejects it).
AsciiPrintable ==
    <<" ", "!", "\"", "#", "$", "%", "&", "'", "(", ")", "*", "+",
    ",", "-", ".", "/", "0", "1", "2", "3", "4", "5", "6", "7",
    "8", "9", ":", ";", "<", "=", ">", "?", "@", "A", "B", "C",
    "D", "E", "F", "G", "H", "I", "J", "K", "L", "M", "N", "O",
    "P", "Q", "R", "S", "T", "U", "V", "W", "X", "Y", "Z", "[",
    "\\", "]", "^", "_", "<grave>", "a", "b", "c", "d", "e", "f", "g",
    "h", "i", "j", "k", "l", "m", "n", "o", "p", "q", "r", "s",
    "t", "u", "v", "w", "x", "y", "z", "{", "|", "}", "~">>

\* The character urllib puts in place of a byte it cannot decode.
ReplacementChar == "<U+FFFD>"

(***************************************************************************)
(* EXTINF_PATTERN.search(line)                                             *)
(***************************************************************************)

\* The least and the greatest of a non-empty set of positions.
Min(S) == CHOOSE x \in S : \A y \in S : x <= y
Max(S) == CHOOSE x \in S : \A y \in S : x >= y

\* [^"]*", : the quote found at q2 closes the group-title and a comma follows.
ClosesGroupTitle(line, q2) == q2 # 0 /\ IsAt(line, q2 + 1, <<",">>)

\* The group-title positions k at which the rest of the pattern matches, for a
\* logo whose closing quote is at q1: group-title=" then [^"]* then ", .
GroupTitleHits(line, q1) ==
    {k \in (q1 + 1)..Len(line) :
        /\ IsAt(line, k, GroupTitleLit)
        /\ ClosesGroupTitle(line, Find(line, QuoteLit, k + Len(GroupTitleLit)))}

\* [^"]*".* : the quote found at q1 closes the logo and the rest matches later.
ClosesLogo(line, q1) == q1 # 0 /\ GroupTitleHits(line, q1) # {}

\* The start positions i at which the whole pattern matches.
ExtinfStarts(line) ==
    {i \in 1..Len(line) :
        /\ IsAt(line, i, TvgLogoLit)
        /\ ClosesLogo(line, Find(line, QuoteLit, i + Len(TvgLogoLit)))}

\* The groups of the match whose logo is line[a..q1-1] and whose group-title
\* starts at b.
ExtinfGroups(line, a, q1, b) ==
    [g1 |-> SubSeq(line, a, q1 - 1),
     g2 |-> SubSeq(line, b, Find(line, QuoteLit, b) - 1),
     g3 |-> From(line, Find(line, QuoteLit, b) + 2)]

\* The match whose logo is line[a..q1-1]: the greedy .* takes the last
\* group-title=" from which the rest matches.
ExtinfMatchLogo(line, a, q1) ==
    ExtinfGroups(line, a, q1, Max(GroupTitleHits(line, q1)) + Len(GroupTitleLit))

\* The match whose logo starts at a.
ExtinfMatchFrom(line, a) == ExtinfMatchLogo(line, a, Find(line, QuoteLit, a))

\* The match object: None, or groups 1..3.  search() takes the leftmost start.
ExtinfSearch(line) ==
    IF ExtinfStarts(line) = {} THEN None
    ELSE ExtinfMatchFrom(line, Min(ExtinfStarts(line)) + Len(TvgLogoLit))

(***************************************************************************)
(* urllib.parse.urlparse, for the http:// and https:// urls the parser     *)
(* hands to it.                                                            *)
(***************************************************************************)

\* r[h:] for h the first of the positions ends, '' when there is none.
FromFirst(r, ends) == IF ends = {} THEN << >> ELSE From(r, Min(ends))

\* r is what follows "scheme:"; the netloc ends at the first of / ? # .
AfterNetloc(r) == FromFirst(r, {k \in 3..Len(r) : r[k] \in {"/", "?", "#"}})

\* What follows scheme://netloc .
UrlAfterNetloc(url) == AfterNetloc(From(url, Find(url, <<":">>, 1) + 1))

\* r[:h-1] for a position h, r itself when h = 0.
BeforePos(r, h) == IF h = 0 THEN r ELSE SubSeq(r, 1, h - 1)

\* r[q:] for a position q, '' when q = 0.
AfterPos(r, q) == IF q = 0 THEN << >> ELSE From(r, q + 1)

\* The same without the #fragment.
UrlNoFragment(url) == BeforePos(UrlAfterNetloc(url), Find(UrlAfterNetloc(url), <<"#">>, 1))

\* What comes before the first ? of r, and what comes after it.
BeforeQuery(r) == BeforePos(r, Find(r, <<"?">>, 1))
AfterQuery(r) == AfterPos(r, Find(r, <<"?">>, 1))

\* urlparse(url).query
UrlQuery(url) == AfterQuery(UrlNoFragment(url))

\* _splitparams: the ;params of the last path segment are not part of .path
SplitParams(p) ==
    BeforePos(p, IF Contains(p, <<"/">>) THEN Find(p, <<";">>, RFind(p, <<"/">>))
                                         ELSE Find(p, <<";">>, 1))

\* The path of a url whose part before the query is p.
PathOf(p) == IF Contains(p, <<";">>) THEN SplitParams(p) ELSE p

\* urlparse(url).path
UrlPath(url) == PathOf(BeforeQuery(UrlNoFragment(url)))

HexDigits == <<"0","1","2","3","4","5","6","7","8","9","a","b","c","d","e","f">>
IsHex(c) == InSeq(HexDigits, LowerChar(c))
HexVal(c) == IndexIn(HexDigits, LowerChar(c)) - 1

\* chr(n) after decoding one %XX byte: printable ASCII, else the replacement.
ByteChar(n) == IF n >= 32 /\ n <= 126 THEN AsciiPrintable[n - 31] ELSE ReplacementChar

\* urllib.parse.unquote
RECURSIVE Unquote(_)
Unquote(s) ==
    IF s = << >> THEN << >>
    ELSE IF s[1] = "%" /\ Len(s) >= 3 /\ IsHex(s[2]) /\ IsHex(s[3])
         THEN <<ByteChar(16 * HexVal(s[2]) + HexVal(s[3]))>> \o Unquote(From(s, 4))
         ELSE <<s[1]>> \o Unquote(Tail(s))

\* s.replace('+', ' ')
PlusToSpace(s) == [k \in 1..Len(s) |-> IF s[k] = "+" THEN " " ELSE s[k]]

\* The (name, value) pairs parse_qs keeps, in query order: a pair without '='
\* or with an empty value is dropped (keep_blank_values is off).
RECURSIVE QueryPairs(_)
QueryPairs(fields) ==
    IF fields = << >> THEN << >>
    ELSE LET f  == fields[1]
             eq == Find(f, <<"=">>, 1)
         IN  IF eq = 0 \/ eq = Len(f)
             THEN QueryPairs(Tail(fields))
             ELSE << <<Unquote(PlusToSpace(SubSeq(f, 1, eq - 1))),
                       Unquote(PlusToSpace(From(f, eq + 1)))>> >>
                  \o QueryPairs(Tail(fields))

\* The order in which iterating parse_qs(query).items() and then each value
\* list visits the pairs: names in first-seen order, a name's values together.
RECURSIVE DictOrder(_)
DictOrder(pairs) ==
    IF pairs = << >> THEN << >>
    ELSE LET n == pairs[1][1]
         IN  SelectSeq(pairs, LAMBDA p : p[1] = n)
             \o DictOrder(SelectSeq(pairs, LAMBDA p : p[1] # n))

\* urllib.parse.parse_qs(query), flattened in iteration order.
ParseQs(query) == DictOrder(QueryPairs(Split(query, "&")))

(***************************************************************************)
(* determine_audio_format                                                  *)
(***************************************************************************)

\* identifiers of entry k of FORMAT_IDENTIFIERS, as a set
Identifiers(k) ==
    {FORMAT_IDENTIFIERS[k][2][j] : j \in 1..Len(FORMAT_IDENTIFIERS[k][2])}

\* The FORMAT_IDENTIFIERS entries one of whose identifiers occurs in url_lower.
FormatsIn(url_lower) ==
    {k \in 1..Len(FORMAT_IDENTIFIERS) : \E id \in Identifiers(k) : Contains(url_lower, id)}

\* The FORMAT_IDENTIFIERS entries that list value_lower as an identifier.
FormatsNamed(value_lower) ==
    {k \in 1..Len(FORMAT_IDENTIFIERS) : value_lower \in Identifiers(k)}

\* AUDIO_FORMATS[fmt] for the first entry of FORMAT_IDENTIFIERS among ks.
FirstFormat(ks) == AudioFormat(FORMAT_IDENTIFIERS[Min(ks)][1])

\* The pairs ps of the query that name a format: a parameter format/fmt/type
\* whose lower-cased value is a known identifier.
FormatParams(ps) ==
    {k \in 1..Len(ps) :
        /\ Lower(ps[k][1]) \in QueryFormatNames
        /\ FormatsNamed(Lower(ps[k][2])) # {}}

\* path.split('.')[-1]
Ext(path_lower) == From(path_lower, RFind(path_lower, <<".">>) + 1)

\* The three steps of determine_audio_format, on path = parsed_url.path.lower(),
\* url.lower(), parsed_url.query and ps = parse_qs(query).
FormatFrom(path_lower, url_lower, query, ps) ==
    IF Contains(path_lower, <<".">>) /\ InAudioFormats(Ext(path_lower))
    THEN AudioFormat(Ext(path_lower))
    ELSE IF FormatsIn(url_lower) # {} THEN FirstFormat(FormatsIn(url_lower))
    ELSE IF query # << >> /\ FormatParams(ps) # {}
         THEN FirstFormat(FormatsNamed(Lower(ps[Min(FormatParams(ps))][2])))
    ELSE <<"Unknown", 0>>

determine_audio_format(url) ==
    FormatFrom(Lower(UrlPath(url)), Lower(url), UrlQuery(url), ParseQs(UrlQuery(url)))

(***************************************************************************)
(* extract_bitrate_from_url                                                *)
(***************************************************************************)

\* Last position of the run of digits that starts at a (a - 1 when none).
DigitRunEnd(u, a) == SkipForward(u, a, {Digits[k] : k \in 1..10}) - 1

\* The pattern matches at i with its digits running to j: at least one digit,
\* then the literal, then a character of the trailing class.
BitrateHitAt(u, pat, i, j) ==
    /\ j >= i + 1
    /\ IsAt(u, j + 1, pat[2])
    /\ j + 1 + Len(pat[2]) <= Len(u)
    /\ u[j + 1 + Len(pat[2])] \in pat[3]

\* pattern.search(u) for pat = <<leading class, literal, trailing class>>:
\* the start positions of a match.  \d+ is greedy and what follows it is not a
\* digit, so the digits of a match are the whole run.
BitrateHits(u, pat) ==
    {i \in 1..Len(u) : u[i] \in pat[1] /\ BitrateHitAt(u, pat, i, DigitRunEnd(u, i + 1))}

\* int(match.group(1)) for the match that starts at i.
BitrateAt(u, i) == ParseInt(SubSeq(u, i + 1, DigitRunEnd(u, i + 1)))

\* int(match.group(1)) of the leftmost match; -1 when the pattern has no match.
BitrateGroup(u, pat) ==
    IF BitrateHits(u, pat) = {} THEN -1 ELSE BitrateAt(u, Min(BitrateHits(u, pat)))

\* A variant of the range test that has no lower end.
BitrateInRange_no_floor(b) == 0 <= b /\ b <= 1411

\* 32 <= bitrate <= 1411
BitrateInRange(b) == 32 <= b /\ b <= 1411

\* The patterns, in order, whose first match is a bitrate in the accepted range.
BitrateAccepted(u) ==
    {p \in 1..Len(BITRATE_PATTERNS) : BitrateInRange(BitrateGroup(u, BITRATE_PATTERNS[p]))}

\* extract_bitrate_from_url on url_lower = url.lower()
BitrateFrom(url_lower) ==
    IF BitrateAccepted(url_lower) # {}
    THEN BitrateGroup(url_lower, BITRATE_PATTERNS[Min(BitrateAccepted(url_lower))])
    ELSE IF Contains(url_lower, IcecastLit) THEN 128
    ELSE 0

extract_bitrate_from_url(url) == BitrateFrom(Lower(url))

(***************************************************************************)
(* generate_station_id                                                     *)
(***************************************************************************)

IdChars == {LowerLetters[k] : k \in 1..26} \cup {Digits[k] : k \in 1..10}

\* STATION_ID_CLEAN_PATTERN.sub('-', base)
CleanId(s) == [k \in 1..Len(s) |-> IF s[k] \in IdChars THEN s[k] ELSE "-"]

\* STATION_ID_HYPHEN_PATTERN.sub('-', base): runs of hyphens become one.
RECURSIVE CollapseHyphens(_)
CollapseHyphens(s) ==
    IF Len(s) < 2 THEN s
    ELSE IF s[1] = "-" /\ s[2] = "-" THEN CollapseHyphens(Tail(s))
    ELSE <<s[1]>> \o CollapseHyphens(Tail(s))

\* hashlib.md5(url.encode()).hexdigest()[:8], tabulated for the urls the
\* playlists of this model hold (computed with hashlib).
Md5Table ==
    { << <<"h","t","t","p",":","/","/","a","/","s",".","m","p","3">>,
         <<"f","9","e","c","5","4","3","a">> >>,
      << <<"h","t","t","p","s",":","/","/","b","/","6","4","/","x">>,
         <<"7","7","7","8","3","3","2","d">> >>,
      << <<"h","t","t","p",":","/","/","c","/","i","c","e","c","a","s","t">>,
         <<"e","7","0","d","6","0","2","f">> >>,
      << <<"h","t","t","p",":","/","/","d","/","x">>,
         <<"a","7","d","0","7","3","a","1">> >>,
      << <<"h","t","t","p",":","/","/","e","/","3","1","/","x">>,
         <<"b","2","8","e","9","e","3","b">> >>,
      << <<"h","t","t","p",":","/","/","e","/","3","2","/","x">>,
         <<"c","9","c","a","b","7","a","7">> >>,
      << <<"h","t","t","p",":","/","/","e","/","1","4","1","1","/","x">>,
         <<"b","6","1","b","a","9","f","6">> >>,
      << <<"h","t","t","p",":","/","/","e","/","1","4","1","2","/","x">>,
         <<"8","6","e","3","3","a","0","8">> >>,
      << <<"h","t","t","p",":","/","/","f","/","2","0","/","s",".","f","l","a","c">>,
         <<"5","d","b","b","0","9","1","9">> >>,
      << <<"h","t","t","p",":","/","/","g","/","2","0","0","0","/","i","c","e","c","a","s","t">>,
         <<"a","f","7","d","6","d","0","d">> >>,
      << <<"h","t","t","p",":","/","/","h","/","9","6","k","/","s",".","w","a","v">>,
         <<"b","5","e","b","2","0","d","3">> >>,
      << <<"h","t","t","p",":","/","/","i","/","8","k","/","2","5","6","/","x">>,
         <<"e","0","a","c","5","3","0","5">> >>,
      << <<"h","t","t","p",":","/","/","j","/","2","0","/","1","2","8","/","x">>,
         <<"1","0","4","7","0","6","0","9">> >> }

Md5Hex8(url) == (CHOOSE p \in Md5Table : p[1] = url)[2]

\* A variant of generate_station_id whose slug also takes in the logo.
generate_station_id_logo(station) ==
    StripHyphens(CollapseHyphens(CleanId(
        Lower(station.country_code) \o <<"-">> \o Lower(station.name) \o <<"-">>
        \o Lower(station.logo))))
    \o <<"-">> \o Md5Hex8(station.url)

generate_station_id(station) ==
    StripHyphens(CollapseHyphens(CleanId(
        Lower(station.country_code) \o <<"-">> \o Lower(station.name))))
    \o <<"-">> \o Md5Hex8(station.url)

(***************************************************************************)
(* The country lookups (pycountry / babel), tabulated for the country      *)
(* directories of this model.  A name is one opaque symbol: the program    *)
(* never looks inside it.                                                  *)
(***************************************************************************)

\* The alpha-2 codes pycountry knows, among those of this model.
KnownCountries == {<<"U","S">>, <<"D","E">>}

\* pycountry.countries.get(alpha_2=code).name for a known code.
CountryTable(code_upper) ==
    CASE code_upper = <<"U","S">> -> <<"United States">>
      [] code_upper = <<"D","E">> -> <<"Germany">>

get_country_name(country_code) ==
    LET code_upper == Upper(country_code)
    IN  IF code_upper \in KnownCountries THEN CountryTable(code_upper) ELSE code_upper

\* The language babel gives for the locale <code>_<CODE>, or pycountry for the
\* code read as a language code; the empty list when neither knows it.
get_language_from_country(code) ==
    LET upper == Upper(code)
    IN  IF upper \notin KnownCountries THEN << >>
        ELSE CASE upper = <<"D","E">> -> << <<"German">> >>
               [] OTHER -> << >>

(***************************************************************************)
(* The playlist lines of this model.                                       *)
(***************************************************************************)

\* #EXTINF:-1 tvg-logo="L" group-title="J;P",A
LineExtinfA ==
    ExtinfPrefix \o <<"-","1"," ">> \o TvgLogoLit \o <<"L","\""," ">>
    \o GroupTitleLit \o <<"J",";","P","\"",",","A">>
\* #EXTINF:-1 tvg-logo="" group-title="R", B
LineExtinfB ==
    ExtinfPrefix \o <<"-","1"," ">> \o TvgLogoLit \o <<"\""," ">>
    \o GroupTitleLit \o <<"R","\"",","," ","B">>
\* #EXTINF:-1 tvg-logo="" group-title="",     (no display name)
LineExtinfNoName ==
    ExtinfPrefix \o <<"-","1"," ">> \o TvgLogoLit \o <<"\""," ">>
    \o GroupTitleLit \o <<"\"",",">>
\* #EXTINF:-1,C      (no tvg-logo / group-title: the pattern does not match)
LineExtinfBad == ExtinfPrefix \o <<"-","1",",","C">>
\* http://a/s.mp3
LineUrl1 == HttpPrefix \o <<"a","/","s",".","m","p","3">>
\*   https://b/64/x     (indented)
LineUrl2 == <<" ">> \o HttpsPrefix \o <<"b","/","6","4","/","x">>
\* #EXTM3U
LineHeader == ExtM3uPrefix
\* an empty line
LineBlank == << >>
\* rtmp://x      (neither metadata nor an http(s) url)
LineOther == <<"r","t","m","p",":","/","/","x">>

LinePool ==
    {LineExtinfA, LineExtinfB, LineExtinfNoName, LineExtinfBad,
     LineUrl1, LineUrl2, LineHeader, LineBlank, LineOther}

\* Two more lines, met only in the playlist tree of the catalog build.
\* #EXTINF:-1 tvg-logo="" group-title="",A     (the name of LineExtinfA)
LineExtinfA2 ==
    ExtinfPrefix \o <<"-","1"," ">> \o TvgLogoLit \o <<"\""," ">>
    \o GroupTitleLit \o <<"\"",",","A">>
\* http://c/icecast
LineUrl3 == HttpPrefix \o <<"c","/","i","c","e","c","a","s","t">>

\* Urls that put extract_bitrate_from_url and the format defaults through
\* their cases.
BitrateUrls ==
    {
     <<"h","t","t","p",":","/","/","d","/","x">>,   \* http://d/x  (no number, no extension)
     <<"h","t","t","p",":","/","/","e","/","3","1","/","x">>,   \* http://e/31/x  (a number just under the range)
     <<"h","t","t","p",":","/","/","e","/","3","2","/","x">>,   \* http://e/32/x  (the lowest accepted number)
     <<"h","t","t","p",":","/","/","e","/","1","4","1","1","/","x">>,   \* http://e/1411/x  (the highest accepted number)
     <<"h","t","t","p",":","/","/","e","/","1","4","1","2","/","x">>,   \* http://e/1412/x  (a number just over the range)
     <<"h","t","t","p",":","/","/","f","/","2","0","/","s",".","f","l","a","c">>,   \* http://f/20/s.flac  (a number under the range, a FLAC extension)
     <<"h","t","t","p",":","/","/","g","/","2","0","0","0","/","i","c","e","c","a","s","t">>,   \* http://g/2000/icecast  (a number over the range, an icecast url)
     <<"h","t","t","p",":","/","/","h","/","9","6","k","/","s",".","w","a","v">>,   \* http://h/96k/s.wav  (an accepted number and a WAV extension)
     <<"h","t","t","p",":","/","/","i","/","8","k","/","2","5","6","/","x">>,   \* http://i/8k/256/x  (8k refused by the first pattern, 256 taken by the last)
     <<"h","t","t","p",":","/","/","j","/","2","0","/","1","2","8","/","x">>}   \* http://j/20/128/x  (the last pattern stops at its first match, 20)

\* The two #EXTINF lines the build writes into its playlists that are in no
\* file of the tree.
\* #EXTINF:-1 tvg-logo="L" group-title="J,P",A
LineWrittenA ==
    ExtinfPrefix \o <<"-","1"," ">> \o TvgLogoLit \o <<"L","\""," ">>
    \o GroupTitleLit \o <<"J",",","P","\"",",","A">>
\* #EXTINF:-1 tvg-logo="" group-title="R",B
LineWrittenB ==
    ExtinfPrefix \o <<"-","1"," ">> \o TvgLogoLit \o <<"\""," ">>
    \o GroupTitleLit \o <<"R","\"",",","B">>

\* The lines as the loop sees them, after line.strip().
StrippedPool ==
    {Strip(l) : l \in LinePool \cup BitrateUrls
                       \cup {LineExtinfA2, LineUrl3, LineWrittenA, LineWrittenB}}

(***************************************************************************)
(* The three text functions above are pure; their values on the lines of   *)
(* this model are tabulated once and looked up from then on.               *)
(***************************************************************************)

ExtinfSearchTable == [l \in StrippedPool |-> ExtinfSearch(l)]
AudioFormatTable == [l \in StrippedPool |-> determine_audio_format(l)]
BitrateTable == [l \in StrippedPool |-> extract_bitrate_from_url(l)]

\* EXTINF_PATTERN.search(line)
ExtinfMatch(line) == ExtinfSearchTable[line]

\* determine_audio_format(line)
AudioFormatOf(line) == AudioFormatTable[line]

\* extract_bitrate_from_url(line)
BitrateOf(line) == BitrateTable[line]

(***************************************************************************)
(* parse_m3u_file                                                          *)
(***************************************************************************)

\* A station dict is a function from its keys; a pending station has no url,
\* format, bitrate and id yet.
PendingKeys == {"name", "logo", "genres", "country_code", "country", "language"}
EntryKeys == PendingKeys \cup {"url", "format", "bitrate", "id"}

\* [genre.strip() for genre in group_title.split(';')]
Genres(group_title) ==
    LET parts == Split(group_title, ";")
    IN  [k \in 1..Len(parts) |-> Strip(parts[k])]

\* The dict built from a matched EXTINF line.
NewStation(match, country_code) ==
    [name         |-> Strip(match.g3),
     logo         |-> match.g1,
     genres       |-> Genres(match.g2),
     country_code |-> Upper(country_code),
     country      |-> get_country_name(country_code),
     language     |-> get_language_from_country(country_code)]

\* bitrate = extract_bitrate_from_url(line) or default_bitrate
BitrateOr(rate, default_bitrate) == IF rate # 0 THEN rate ELSE default_bitrate

\* current_station['id'] = generate_station_id(current_station)
WithId(station) == station @@ [id |-> generate_station_id(station)]

\* The dict appended to stations for a url line: the pending station with its
\* url, format, bitrate and id.
CompleteStation(cs, line) ==
    WithId(cs @@ [url     |-> line,
                  format  |-> AudioFormatOf(line)[1],
                  bitrate |-> BitrateOr(BitrateOf(line), AudioFormatOf(line)[2])])

IsSkipped(line) ==
    line = << >> \/ StartsWith(line, SlashSlash) \/ StartsWith(line, ExtM3uPrefix)

IsUrl(line) == StartsWith(line, HttpPrefix) \/ StartsWith(line, HttpsPrefix)

\* ExtinfLine with a failed match discarding the pending entry.
ExtinfLine_bad_resets(st, match, country_code) ==
    IF match # None
    THEN [st EXCEPT !.current_station = NewStation(match, country_code)]
    ELSE [st EXCEPT !.current_station = None]

\* ExtinfLine starting an entry without metadata when the pattern does not
\* match.
ExtinfLine_bad_starts(st, match, country_code) ==
    IF match # None
    THEN [st EXCEPT !.current_station = NewStation(match, country_code)]
    ELSE [st EXCEPT !.current_station =
                       NewStation([g1 |-> << >>, g2 |-> << >>, g3 |-> << >>], country_code)]

\* The branch of the loop for a line that starts with #EXTINF: , match being
\* EXTINF_PATTERN.search(line).
ExtinfLine(st, match, country_code) ==
    IF match # None
    THEN [st EXCEPT !.current_station = NewStation(match, country_code)]
    ELSE st

\* UrlLine without the reset of current_station: every further url line would
\* complete the same entry again.
UrlLine_keep_pending(st, line) ==
    [stations        |-> Append(st.stations, CompleteStation(st.current_station, line)),
     current_station |-> st.current_station]

\* The branch of the loop for a url line read while a station is pending.
UrlLine(st, line) ==
    [stations        |-> Append(st.stations, CompleteStation(st.current_station, line)),
     current_station |-> None]

\* One iteration of the loop on line, already stripped.
ParseStripped(st, line, country_code) ==
    IF IsSkipped(line) THEN st
    ELSE IF StartsWith(line, ExtinfPrefix)
         THEN ExtinfLine(st, ExtinfMatch(line), country_code)
    ELSE IF st.current_station # None /\ IsUrl(line) THEN UrlLine(st, line)
    ELSE st

\* One iteration of the loop over the file's lines: st holds the loop's
\* variables, stations and current_station.
ParseLine(st, raw, country_code) == ParseStripped(st, Strip(raw), country_code)

\* The loop's variables before the first line.
ParseStart == [stations |-> << >>, current_station |-> None]

\* The loop's variables after the first n lines.
RECURSIVE ParseLines(_, _, _)
ParseLines(lines, n, country_code) ==
    IF n = 0 THEN ParseStart
    ELSE ParseLine(ParseLines(lines, n - 1, country_code), lines[n], country_code)

\* parse_m3u_file(file_path), for a file with these lines in a directory named
\* country_code.
parse_m3u_file(lines, country_code) == ParseLines(lines, Len(lines), country_code).stations

(***************************************************************************)
(* sorted(STREAMS_DIR.glob('**/*.m3u')).  A path is the sequence of its    *)
(* parts below ROOT_DIR; paths compare part by part, parts as strings by   *)
(* code point.                                                             *)
(***************************************************************************)

\* ord(c) for a printable ASCII character
Ord(c) == IndexIn(AsciiPrintable, c) + 31

\* a < b for two strs
StrLess(a, b) ==
    \E k \in 1..Len(b) :
        /\ k - 1 <= Len(a)
        /\ \A j \in 1..(k - 1) : a[j] = b[j]
        /\ (k = Len(a) + 1 \/ (k <= Len(a) /\ Ord(a[k]) < Ord(b[k])))

\* p < q for two paths
PathLess(p, q) ==
    \E k \in 1..Len(q) :
        /\ k - 1 <= Len(p)
        /\ \A j \in 1..(k - 1) : p[j] = q[j]
        /\ (k = Len(p) + 1 \/ (k <= Len(p) /\ StrLess(p[k], q[k])))

\* seq with p put after its first n elements
InsertAt(seq, n, p) == SubSeq(seq, 1, n) \o <<p>> \o SubSeq(seq, n + 1, Len(seq))

\* A sorted list with p put in its place: after the elements that are not
\* greater than p.
InsertSorted(done, p) ==
    InsertAt(done, Cardinality({k \in 1..Len(done) : ~PathLess(p, done[k])}), p)

RECURSIVE InsertionSort(_)
InsertionSort(paths) ==
    IF paths = << >> THEN << >>
    ELSE InsertSorted(InsertionSort(SubSeq(paths, 1, Len(paths) - 1)), paths[Len(paths)])

\* The files in the order the directory listing gives them.
SortPaths_as_listed(paths) == paths

\* sorted(paths)
SortPaths(paths) == InsertionSort(paths)

(***************************************************************************)
(* The playlist tree of this model, below STREAMS_DIR.                     *)
(***************************************************************************)

STREAMS_DIR == <<"s","t","r","e","a","m","s">>
FileA == <<"a",".","m","3","u">>
FileX == <<"x",".","m","3","u">>

\* streams/us/a.m3u : two stations
PathUsA == <<STREAMS_DIR, <<"u","s">>, FileA>>
\* streams/US/a.m3u : the same country code in upper case; the two stations
\* of us/a.m3u the other way round, the second with another logo and other
\* genres
PathUpperA == <<STREAMS_DIR, <<"U","S">>, FileA>>
\* streams/de/a.m3u : another country, the url of no other file
PathDeA == <<STREAMS_DIR, <<"d","e">>, FileA>>
\* streams/de/x.m3u : a directory whose name ends in .m3u
PathDeX == <<STREAMS_DIR, <<"d","e">>, FileX>>

PlaylistPaths == {PathUsA, PathUpperA, PathDeA, PathDeX}

\* What is at each path: a regular file with its lines, or not a file.
PlaylistTree ==
    [p \in PlaylistPaths |->
        CASE p = PathUsA    -> [is_file |-> TRUE,
                                lines |-> <<LineHeader, LineExtinfA, LineUrl1,
                                            LineExtinfB, LineUrl2>>]
          [] p = PathUpperA -> [is_file |-> TRUE,
                                lines |-> <<LineExtinfB, LineUrl2, LineExtinfBad,
                                            LineExtinfA2, LineUrl1>>]
          [] p = PathDeA    -> [is_file |-> TRUE,
                                lines |-> <<LineExtinfA, LineOther, LineUrl3>>]
          [] p = PathDeX    -> [is_file |-> FALSE, lines |-> << >>]]

\* parse_m3u_file(file_path) for the regular files of the tree, computed once.
ParsedTree ==
    [p \in {q \in PlaylistPaths : PlaylistTree[q].is_file} |->
        parse_m3u_file(PlaylistTree[p].lines, p[Len(p) - 1])]

(***************************************************************************)
(* get_all_stations                                                        *)
(***************************************************************************)

\* str(file_path.relative_to(ROOT_DIR))
RelativePath(path) == Join(path, <<"/">>)

\* for station in stations: station['source_file'] = relative_path
WithSource(stations, relative_path) ==
    [k \in 1..Len(stations) |-> stations[k] @@ [source_file |-> relative_path]]

\* country_counts[code] += n, on a defaultdict(int)
AddCount(counts, code, n) ==
    IF code \in DOMAIN counts THEN [counts EXCEPT ![code] = @ + n]
    ELSE counts @@ (code :> n)

\* The three results before the first file.
NoStations == [all_stations |-> << >>, country_counts |-> << >>, country_files |-> << >>]

\* The body of the loop after parse_m3u_file, for a file of country code with
\* these stations.
Gathered(acc, code, relative_path, stations) ==
    [all_stations   |-> acc.all_stations \o WithSource(stations, relative_path),
     country_counts |-> AddCount(acc.country_counts, code, Len(stations)),
     country_files  |-> Append(acc.country_files,
                               [code |-> code, file |-> relative_path,
                                count |-> Len(stations)])]

\* One iteration of the loop over m3u_files.
FileStep(acc, path) ==
    IF ~PlaylistTree[path].is_file THEN acc
    ELSE Gathered(acc, Upper(path[Len(path) - 1]), RelativePath(path), ParsedTree[path])

(***************************************************************************)
(* load_validation_results and generate_metadata_catalog                   *)
(***************************************************************************)

\* The files the two scripts read and write, as paths below ROOT_DIR.  Each
\* script has a METADATA_DIR of its own.
Site_METADATA_DIR == <<"docs", "site_data", "metadata">>
Site_catalog_file == Site_METADATA_DIR \o <<"catalog.json">>
VALIDATION_RESULTS_FILE == <<"validation-results.json">>
Validate_METADATA_DIR == <<"metadata">>
CATALOG_FILE == Validate_METADATA_DIR \o <<"catalog.json">>
RESULTS_FILE == <<"validation-results.json">>

OUTPUT_DIR == <<"docs", "site_data">>
unified_playlist_path == OUTPUT_DIR \o <<"all_stations.m3u">>
by_country_dir == OUTPUT_DIR \o <<"by_country">>
summary_file == OUTPUT_DIR \o <<"summary.json">>

DiskPaths ==
    {Site_catalog_file, VALIDATION_RESULTS_FILE, CATALOG_FILE, RESULTS_FILE,
     unified_playlist_path, by_country_dir, summary_file}

\* A path with no file, and a file json.load cannot parse.
Absent == [absent |-> TRUE]
Unparseable == [unparseable |-> TRUE]

\* A file whose bytes are not UTF-8: the read inside json.load raises
\* UnicodeDecodeError, a ValueError that is neither a JSONDecodeError nor an
\* OSError.
Undecodable == [undecodable |-> TRUE]

\* What a call gives when an exception leaves it.
Raised(exception) == [raised |-> exception]
IsRaised(value) == "raised" \in DOMAIN value

\* An empty dict.
EmptyDict == << >>

\* load_validation_results(): the except clause catches json.JSONDecodeError
\* and OSError, not the UnicodeDecodeError of a file that is not UTF-8.
load_validation_results(files) ==
    IF files[VALIDATION_RESULTS_FILE] = Undecodable THEN Raised("UnicodeDecodeError")
    ELSE IF files[VALIDATION_RESULTS_FILE] \in {Absent, Unparseable}
    THEN [stations |-> EmptyDict]
    ELSE files[VALIDATION_RESULTS_FILE]

\* validation_results.get('stations', {}) if validation_results else {}
ValidationStations(validation_results) ==
    IF "stations" \in DOMAIN validation_results THEN validation_results.stations
    ELSE EmptyDict

\* A variant of Reliability that takes every known url for a working one.
Reliability_known_is_ok(url, validation_stations) ==
    IF url \in DOMAIN validation_stations THEN 95 ELSE 50

\* The reliability of a stream, in hundredths.
Reliability(url, validation_stations) ==
    IF url \in DOMAIN validation_stations
    THEN (IF validation_stations[url] = "ok" THEN 95 ELSE 30)
    ELSE 50

\* urlparse(logo).scheme: the characters before the first ':' when they make
\* a scheme, lower-cased.
SchemeChars ==
    {LowerLetters[k] : k \in 1..26} \cup {UpperLetters[k] : k \in 1..26}
    \cup {Digits[k] : k \in 1..10} \cup {"+", "-", "."}
IsSchemeEnd(url, c) ==
    /\ c > 1
    /\ InSeq(LowerLetters, LowerChar(url[1]))
    /\ \A k \in 1..(c - 1) : url[k] \in SchemeChars
SchemeEnd(url) == IF IsSchemeEnd(url, Find(url, <<":">>, 1)) THEN Find(url, <<":">>, 1) ELSE 0
UrlScheme(url) == Lower(SubSeq(url, 1, SchemeEnd(url) - 1))

\* urlparse(logo).netloc: what stands between a leading // and the first of
\* / ? # in the rest after the scheme.
NetlocOf(r) ==
    IF ~StartsWith(r, SlashSlash) THEN << >>
    ELSE SubSeq(r, 3, Min({k \in 3..(Len(r) + 1) : k = Len(r) + 1 \/ r[k] \in {"/", "?", "#"}}) - 1)
UrlNetloc(url) == NetlocOf(From(url, SchemeEnd(url) + 1))

\* website: scheme://netloc of a logo that starts with http and has a netloc
Website(logo) ==
    IF StartsWith(logo, <<"h","t","t","p">>) /\ UrlNetloc(logo) # << >>
    THEN UrlScheme(logo) \o <<":","/","/">> \o UrlNetloc(logo)
    ELSE << >>

\* genres[:3] if genres else []
Tags(genres) == SubSeq(genres, 1, IF Len(genres) < 3 THEN Len(genres) ELSE 3)

\* The entry of the catalog for one station.
CatalogStation(station, validation_stations, updated_time) ==
    [id          |-> station.id,
     name        |-> station.name,
     country     |-> station.country,
     language    |-> station.language,
     genres      |-> station.genres,
     website     |-> Website(station.logo),
     streams     |-> <<[url         |-> station.url,
                        format      |-> station.format,
                        bitrate     |-> station.bitrate,
                        reliability |-> Reliability(station.url, validation_stations)]>>,
     tags        |-> Tags(station.genres),
     lastChecked |-> updated_time,
     logo        |-> station.logo,
     source      |-> station.source_file]

\* The catalog dict generate_metadata_catalog builds, writes and returns.
generate_metadata_catalog(stations, validation_results, updated_time) ==
    [version  |-> "1.0",
     updated  |-> updated_time,
     stations |-> [k \in 1..Len(stations) |->
                      CatalogStation(stations[k], ValidationStations(validation_results),
                                     updated_time)]]

(***************************************************************************)
(* generate_unified_playlist and generate_by_country_playlists.  A written *)
(* file is the sequence of its lines as a later "for line in f" reads      *)
(* them, each with its newline.                                            *)
(***************************************************************************)

\* #EXTINF:-1 tvg-logo="{logo}" group-title="{genres}",{name}
ExtinfText(logo, genres, name) ==
    ExtinfPrefix \o <<"-","1"," ">> \o TvgLogoLit \o logo \o <<"\""," ">>
    \o GroupTitleLit \o genres \o <<"\"",",">> \o name

\* The two lines of a station, its genres joined by separator.
StationLines(station, separator) ==
    <<ExtinfText(station.logo, Join(station.genres, separator), station.name),
      station.url>>

\* lines = ['#EXTM3U'] and the two lines of each of the first n stations.
RECURSIVE PlaylistLines(_, _, _)
PlaylistLines(stations, n, separator) ==
    IF n = 0 THEN <<LineHeader>>
    ELSE PlaylistLines(stations, n - 1, separator) \o StationLines(stations[n], separator)

\* f.write('\n'.join(lines)); f.write('\n')
WrittenFile(lines) == [k \in 1..Len(lines) |-> lines[k] \o <<"\n">>]

\* The file generate_unified_playlist writes: the genres joined by a comma.
generate_unified_playlist(stations) ==
    WrittenFile(PlaylistLines(stations, Len(stations), <<",">>))

\* The key of a station with the country code as the parser left it.
CountryKey_as_parsed(station) == station.country_code

\* station['country_code'].lower()
CountryKey(station) == Lower(station.country_code)

\* stations_by_country[key].append(station), on a defaultdict(list)
AppendTo(groups, key, station) ==
    IF key \in DOMAIN groups THEN [groups EXCEPT ![key] = Append(@, station)]
    ELSE groups @@ (key :> <<station>>)

\* stations_by_country after the first n stations.
RECURSIVE GroupByCountry(_, _)
GroupByCountry(stations, n) ==
    IF n = 0 THEN EmptyDict
    ELSE AppendTo(GroupByCountry(stations, n - 1), CountryKey(stations[n]), stations[n])

\* The files generate_by_country_playlists writes, by country code: the file
\* of code is by_country/{code}.m3u, its genres joined by a semicolon.
CountryPlaylists(groups) ==
    [code \in DOMAIN groups |->
        WrittenFile(PlaylistLines(groups[code], Len(groups[code]), <<";">>))]

\* A directory after files have been written into it: the files it had stay,
\* those written again are replaced.
WriteInto(dir, files) ==
    IF "files" \notin DOMAIN dir THEN [files |-> files]
    ELSE [files |-> [name \in DOMAIN dir.files \cup DOMAIN files |->
                        IF name \in DOMAIN files THEN files[name] ELSE dir.files[name]]]

(***************************************************************************)
(* analyze_genres and generate_summary_metadata                            *)
(***************************************************************************)

\* genre.lower() for station in stations for genre in station['genres'],
\* over the first n stations.
RECURSIVE GenreTags(_, _)
GenreTags(stations, n) ==
    IF n = 0 THEN << >>
    ELSE GenreTags(stations, n - 1)
         \o [k \in 1..Len(stations[n].genres) |-> Lower(stations[n].genres[k])]

\* The places of tags where a tag stands for the first time.
FirstPlaces(tags) == {i \in 1..Len(tags) : \A j \in 1..(i - 1) : tags[j] # tags[i]}

\* The n-th smallest of a set of numbers.
NthOf(places, n) == CHOOSE i \in places : Cardinality({j \in places : j <= i}) = n

\* list(f): the values of a function on 1..n as a tuple, each computed
\* once.
AsList(f) == SubSeq(f, 1, Len(f))

\* The keys of a dict filled in the order of tags: each tag once, in the
\* order of first insertion; firsts are the places of first insertion.
KeysOf(tags, firsts) == AsList([n \in 1..Cardinality(firsts) |-> tags[NthOf(firsts, n)]])

\* The number of times each tag was counted.
CountsOf(tags) ==
    [tag \in {tags[i] : i \in 1..Len(tags)} |-> Cardinality({i \in 1..Len(tags) : tags[i] = tag})]

\* Counter(tags) (a dict): its keys in the order of their first insertion,
\* and their counts.
Counter(tags) == [keys |-> KeysOf(tags, FirstPlaces(tags)), counts |-> CountsOf(tags)]

\* The counts of the keys, in the order of the keys.
KeyCounts(keys, counts) == AsList([k \in 1..Len(keys) |-> counts[keys[k]]])

\* The place key i takes when the keys are sorted by count, largest first,
\* by a stable sort: after the keys of larger count and the earlier keys of
\* the same count.
PlaceByCount(key_counts, i) ==
    Cardinality({j \in 1..Len(key_counts) :
                    \/ key_counts[j] > key_counts[i]
                    \/ (key_counts[j] = key_counts[i] /\ j <= i)})

\* The place of every key.
Places(key_counts) == AsList([i \in 1..Len(key_counts) |-> PlaceByCount(key_counts, i)])

\* The keys, each at the place places gives it.
PlacedAt(keys, places) ==
    [n \in 1..Len(keys) |-> keys[CHOOSE i \in 1..Len(keys) : places[i] = n]]

\* sorted(keys, key=count, reverse=True): a stable sort.
SortByCount(keys, counts) == PlacedAt(keys, Places(KeyCounts(keys, counts)))

\* The most_common(50) of analyze_genres.
TopGenres == 50

\* most_common with every genre, however many there are.
MostCommon_all(sorted, limit) == sorted

\* counter.most_common(limit), sorted being the keys sorted by count
MostCommon(sorted, limit) == SubSeq(sorted, 1, IF Len(sorted) < limit THEN Len(sorted) ELSE limit)

\* [{'name': genre, 'count': count} for genre, count in top]
NamedCounts(top, counts) == [k \in 1..Len(top) |-> [name |-> top[k], count |-> counts[top[k]]]]

\* analyze_genres, counter being the Counter of the lower-cased genres
GenreData(counter) ==
    [total_unique_genres |-> Len(counter.keys),
     top_genres |-> NamedCounts(MostCommon(SortByCount(counter.keys, counter.counts), TopGenres),
                                counter.counts)]

analyze_genres(stations) == GenreData(Counter(GenreTags(stations, Len(stations))))

\* The keys of country_counts in the order of their insertion: the codes of
\* country_files, each at its first place.
RECURSIVE CodesOf(_, _)
CodesOf(country_files, n) ==
    IF n = 0 THEN << >>
    ELSE IF \E k \in 1..(n - 1) : country_files[k].code = country_files[n].code
         THEN CodesOf(country_files, n - 1)
         ELSE Append(CodesOf(country_files, n - 1), country_files[n].code)

\* [{'code': code, 'count': count} for code, count in sorted(...)]
CodedCounts(codes, counts) == [k \in 1..Len(codes) |-> [code |-> codes[k], count |-> counts[codes[k]]]]

\* The dict generate_summary_metadata builds, writes and returns.
generate_summary_metadata(stations, country_counts, country_files, genre_data, updated) ==
    [total_stations  |-> Len(stations),
     total_countries |-> Cardinality(DOMAIN country_counts),
     countries       |-> CodedCounts(SortByCount(CodesOf(country_files, Len(country_files)),
                                                 country_counts),
                                     country_counts),
     country_files   |-> country_files,
     genre_stats     |-> genre_data,
     updated         |-> updated]

\* datetime.utcnow() formatted: one opaque value, nothing reads it.
CheckTime == "utcnow"

(***************************************************************************)
(* scripts/validate_streams.py: load_catalog, extract_streams_from_catalog *)
(* and the results the collector loop of main builds.                      *)
(***************************************************************************)

\* load_catalog giving what it could read of a file that is not JSON: one
\* station with one stream.
load_catalog_lenient(files) ==
    IF files[CATALOG_FILE] = Unparseable
    THEN [stations |-> <<[streams |-> <<EmptyDict>>]>>]
    ELSE IF files[CATALOG_FILE] \in {Absent, Undecodable} THEN None
    ELSE files[CATALOG_FILE]

\* load_catalog(): the catalog, or None when the file is missing or is not
\* JSON; the except clause does not catch the error of a file that is not
\* UTF-8.
load_catalog(files) ==
    IF files[CATALOG_FILE] = Undecodable THEN Raised("UnicodeDecodeError")
    ELSE IF files[CATALOG_FILE] \in {Absent, Unparseable} THEN None
    ELSE files[CATALOG_FILE]

\* d.get(key, default)
Get(d, key, default) == IF key \in DOMAIN d THEN d[key] ELSE default

\* The stream_info of one stream of a station.
StreamInfo(station, stream) ==
    [url          |-> Get(stream, "url", << >>),
     station_id   |-> Get(station, "id", << >>),
     station_name |-> Get(station, "name", << >>)]

\* The stream_infos of one station, in the order of its streams.
StationStreams(station, streams) ==
    [k \in 1..Len(streams) |-> StreamInfo(station, streams[k])]

\* The stream_infos of the first n stations.
RECURSIVE StreamsOf(_, _)
StreamsOf(stations, n) ==
    IF n = 0 THEN << >>
    ELSE StreamsOf(stations, n - 1)
         \o StationStreams(stations[n], Get(stations[n], "streams", << >>))

extract_streams_from_catalog(catalog) ==
    IF catalog \in {None, EmptyDict} \/ "stations" \notin DOMAIN catalog THEN << >>
    ELSE StreamsOf(catalog.stations, Len(catalog.stations))

\* The results dict before the first result comes in.
NewResults ==
    [total |-> 0, working |-> 0, failed |-> 0, stations |-> EmptyDict,
     details |-> << >>, validation_time |-> CheckTime]

\* results['stations'][url] = status
SetStatus(stations, url, status) ==
    IF url \in DOMAIN stations THEN [stations EXCEPT ![url] = status]
    ELSE stations @@ (url :> status)

\* 'url' in result and result['url'] : the url is None in the dict of the
\* missing-url branch, the one dict without a station_id, and a str elsewhere.
HasUrl(res) == "station_id" \in DOMAIN res /\ res.url # << >>

\* 'ok' if result['working'] else 'failed'
StatusOf(res) == IF res.working THEN "ok" ELSE "failed"

\* The loop body keeping one detail record per url: a result for a url that
\* has a status already is dropped.
Collected_once_per_url(rs, res) ==
    IF HasUrl(res) /\ res.url \in DOMAIN rs.stations THEN rs
    ELSE [rs EXCEPT !.total    = @ + 1,
                    !.working  = IF res.working THEN @ + 1 ELSE @,
                    !.failed   = IF res.working THEN @ ELSE @ + 1,
                    !.details  = Append(@, res),
                    !.stations = IF HasUrl(res) THEN SetStatus(@, res.url, StatusOf(res))
                                 ELSE @]

\* The body of the loop over the completed futures, for one result.
Collected(rs, res) ==
    [rs EXCEPT !.total    = @ + 1,
               !.working  = IF res.working THEN @ + 1 ELSE @,
               !.failed   = IF res.working THEN @ ELSE @ + 1,
               !.details  = Append(@, res),
               !.stations = IF HasUrl(res) THEN SetStatus(@, res.url, StatusOf(res)) ELSE @]

\* quotient + remainder / den to the nearest integer, a half to the even one.
RoundHalfEven(quotient, remainder, den) ==
    IF 2 * remainder > den \/ (2 * remainder = den /\ quotient % 2 = 1)
    THEN quotient + 1
    ELSE quotient

\* round(x, digits) for x = num / den >= 0, as an integer number of 10^-digits
\* (scale = 10^digits).
RoundRatio(num, den, scale) ==
    RoundHalfEven((num * scale) \div den, (num * scale) % den, den)

\* SuccessRate with the digits after the fourth cut off.
SuccessRate_truncated(working, total) ==
    IF total > 0 THEN (working * 10000) \div total ELSE 0

\* working / total if total > 0 else 0, rounded to 4 places (ten-thousandths)
SuccessRate(working, total) == IF total > 0 THEN RoundRatio(working, total, 10000) ELSE 0

\* round(success_rate * 100, 1), in tenths of a percent
SuccessPercent(working, total) == IF total > 0 THEN RoundRatio(working, total, 1000) ELSE 0

\* The results dict as main writes it: with success_rate and summary.
FinalResults(rs) ==
    rs @@ [success_rate |-> SuccessRate(rs.working, rs.total),
           summary      |-> [working |-> rs.working, total |-> rs.total,
                             percent |-> SuccessPercent(rs.working, rs.total),
                             failed  |-> rs.failed]]

(***************************************************************************)
(* State.                                                                  *)
(***************************************************************************)

VARIABLES
    \* parse_m3u_file, run line by line
    file_lines,        \* the lines of the file read so far
    country_dir,       \* file_path.parent.name
    parse_state,       \* the loop's stations and current_station
    parse_pc,          \* "idle", "reading" or "returned"
    \* check_stream, run request by request
    stream_info,       \* the argument: url, station_id, station_name
    response,          \* the local variable response (None before the HEAD)
    latency,           \* the local variable latency, in milliseconds
    http_log,          \* the requests sent so far and what came of each
    result,            \* the dict returned (None until then)
    probe_pc,          \* "idle", "head", "get", "read", "return" or "done"
    \* the files both scripts read and write, and the runs that have ended
    disk,              \* what is at each path of DiskPaths
    run_log,           \* one record per run that has ended, oldest first
    \* generate_site_data.py: main, run step by step
    m3u_files,         \* STREAMS_DIR.glob('**/*.m3u'), as the listing gives it
    unreadable,        \* the files of the tree open() refuses to open
    todo_files,        \* the sorted files the loop has yet to visit
    gathered,          \* all_stations, country_counts, country_files
    validation_results,\* what load_validation_results returned
    catalog,           \* what generate_metadata_catalog returned
    country_count,     \* what generate_by_country_playlists returned
    genre_data,        \* what analyze_genres returned
    summary,           \* what generate_summary_metadata returned
    prev_catalog,      \* the catalog of the run before this one
    build_run,         \* the number of this run, also its time stamp
    build_pc,          \* "idle", "load", "glob", "files", "unified", "by_country",
                       \* "genres", "summary", "done" or "failed"
    \* validate_streams.py: main, run step by step
    val_catalog,       \* what load_catalog returned
    streams_to_check,  \* what extract_streams_from_catalog returned
    pending,           \* the number of futures as_completed has yet to yield
    work_queue,        \* the executor's queue: stream_infos no worker has taken
    executing,         \* the stream_infos worker threads are probing, as a bag
    finished,          \* the results of the futures that are done and not
                       \* yet yielded, as a bag
    results,           \* the results dict
    val_pc             \* "idle", "load", "submit", "collect" or "done"

parse_vars == <<file_lines, country_dir, parse_state, parse_pc>>
probe_vars == <<stream_info, response, latency, http_log, result, probe_pc>>
build_vars == <<m3u_files, unreadable, todo_files, gathered, validation_results, catalog,
                country_count, genre_data, summary, prev_catalog, build_run, build_pc>>
val_vars == <<val_catalog, streams_to_check, pending, work_queue, executing, finished,
              results, val_pc>>
run_vars == <<disk, run_log, build_vars, val_vars>>

vars == <<parse_vars, probe_vars, run_vars>>

\* No file is being parsed.
ParseIdle ==
    /\ file_lines = << >>
    /\ country_dir = << >>
    /\ parse_state = ParseStart
    /\ parse_pc = "idle"

\* No stream is being probed.
ProbeIdle ==
    /\ stream_info = None
    /\ response = None
    /\ latency = 0
    /\ http_log = << >>
    /\ result = None
    /\ probe_pc = "idle"

\* No catalog build is under way and none has run.
BuildIdle ==
    /\ m3u_files = << >>
    /\ unreadable = {}
    /\ todo_files = << >>
    /\ gathered = NoStations
    /\ validation_results = None
    /\ catalog = None
    /\ country_count = 0
    /\ genre_data = None
    /\ summary = None
    /\ prev_catalog = None
    /\ build_run = 0
    /\ build_pc = "idle"

\* No validation run is under way and none has run.
ValidateIdle ==
    /\ val_catalog = None
    /\ streams_to_check = << >>
    /\ pending = 0
    /\ work_queue = << >>
    /\ executing = EmptyBag
    /\ finished = EmptyBag
    /\ results = None
    /\ val_pc = "idle"

\* Neither script has run: none of their files exists.
RunIdle ==
    /\ disk = [p \in DiskPaths |-> Absent]
    /\ run_log = << >>
    /\ BuildIdle
    /\ ValidateIdle

\* Longest playlist file, in lines.
MaxLines == 5

CountryDirs == {<<"u","s">>, <<"d","e">>}

(***************************************************************************)
(* SpecParse: parse_m3u_file on one file, one loop iteration per step.     *)
(* The file is any sequence of at most MaxLines lines of the pool: each     *)
(* step reads one more line, or meets the end of the file.                 *)
(***************************************************************************)

ParseInit ==
    /\ file_lines = << >>
    /\ country_dir \in CountryDirs
    /\ parse_state = ParseStart
    /\ parse_pc = "reading"
    /\ ProbeIdle
    /\ RunIdle

\* for line in f: one iteration, on the next line of the file
ReadLine ==
    /\ parse_pc = "reading"
    /\ Len(file_lines) < MaxLines
    /\ \E raw \in LinePool :
        /\ file_lines' = Append(file_lines, raw)
        /\ parse_state' = ParseLine(parse_state, raw, country_dir)
    /\ UNCHANGED <<country_dir, parse_pc, probe_vars, run_vars>>

\* return stations, at the end of the file
ParseReturn ==
    /\ parse_pc = "reading"
    /\ parse_pc' = "returned"
    /\ UNCHANGED <<file_lines, country_dir, parse_state, probe_vars, run_vars>>

ParseNext == ReadLine \/ ParseReturn

SpecParse == ParseInit /\ [][ParseNext]_vars

(***************************************************************************)
(* SpecBitrate: parse_m3u_file on a file of station entries whose urls     *)
(* carry numbers inside and outside the accepted range, provider names     *)
(* and file extensions.  One loop iteration per step, as in SpecParse.     *)
(***************************************************************************)

\* Longest file of SpecBitrate, in lines.
MaxBitrateLines == 4

BitrateLinePool == {LineExtinfA, LineUrl1, LineUrl3} \cup BitrateUrls

\* The file is in one country directory: the bitrate does not depend on it.
BitrateInit == ParseInit /\ country_dir = <<"u","s">>

\* for line in f: one iteration, on the next line of the file
ReadBitrateLine ==
    /\ parse_pc = "reading"
    /\ Len(file_lines) < MaxBitrateLines
    /\ \E raw \in BitrateLinePool :
        /\ file_lines' = Append(file_lines, raw)
        /\ parse_state' = ParseLine(parse_state, raw, country_dir)
    /\ UNCHANGED <<country_dir, parse_pc, probe_vars, run_vars>>

BitrateNext == ReadBitrateLine \/ ParseReturn

SpecBitrate == BitrateInit /\ [][BitrateNext]_vars

(***************************************************************************)
(* scripts/validate_streams.py: check_stream.                              *)
(*                                                                         *)
(* Time is in milliseconds.  The server and the network decide what each   *)
(* request does: a response with some status code after some time, or an   *)
(* exception.                                                              *)
(***************************************************************************)

\* Status codes a server may answer with.
StatusCodes == {100, 200, 206, 304, 399, 400, 404, 499, 500, 503}

\* Times a request may take, in milliseconds.
ElapsedTimes == {104, 237}

\* The exceptions requests raises, by the except clause that catches them.
TransportErrors == {"Timeout", "ConnectionError", "Other"}

\* The fallback condition without its upper end: 5xx answers would fall back too.
NeedsFallback_any_error(status_code) == 400 <= status_code

\* 400 <= response.status_code < 500
NeedsFallback(status_code) == 400 <= status_code /\ status_code < 500

\* 200 <= response.status_code < 400
IsWorking(status_code) == 200 <= status_code /\ status_code < 400

\* round(latency, 2): seconds to two decimals, here milliseconds to tens.
Round2(ms) == ((ms + 5) \div 10) * 10

\* The dict returned when stream_info has no url.
MissingUrlResult ==
    [url |-> None, status |-> 0, working |-> FALSE, error |-> "Missing URL"]

\* The dict returned after the try block ran to its end.
ResponseResult(info, resp, lat) ==
    [url          |-> info.url,
     status       |-> resp.status_code,
     working      |-> IsWorking(resp.status_code),
     latency      |-> Round2(lat),
     station_id   |-> info.station_id,
     station_name |-> info.station_name,
     check_time   |-> CheckTime]

\* The 'error' text of each except clause.
ErrorText(exc) ==
    CASE exc = "Timeout" -> "Timeout"
      [] exc = "ConnectionError" -> "Connection error"
      [] OTHER -> "str(e)"

\* The dict returned by the except clauses of the outer try.
ErrorResult(info, exc) ==
    [url          |-> info.url,
     status       |-> 0,
     working      |-> FALSE,
     error        |-> ErrorText(exc),
     station_id   |-> info.station_id,
     station_name |-> info.station_name,
     check_time   |-> CheckTime]

\* The streams check_stream is called on: extract_streams_from_catalog gives
\* every stream a url ('' when the catalog has none), an id and a name.
ProbeUrl == <<"h","t","t","p",":","/","/","a","/","s",".","m","p","3">>
StreamInfos ==
    {[url |-> u, station_id |-> <<"i","d">>, station_name |-> <<"A">>] :
        u \in {<< >>, ProbeUrl}}

\* One entry of the log of requests.
Sent(method, url, outcome, status, elapsed) ==
    [method |-> method, url |-> url, outcome |-> outcome, status |-> status,
     elapsed |-> elapsed, body |-> "unread"]

(***************************************************************************)
(* SpecProbe: one call of check_stream.                                    *)
(***************************************************************************)

ProbeInit ==
    /\ ParseIdle
    /\ RunIdle
    /\ stream_info \in StreamInfos
    /\ response = None
    /\ latency = 0
    /\ http_log = << >>
    /\ result = None
    /\ probe_pc = "head"

\* if not url: return {... 'error': 'Missing URL'}
ReturnMissingUrl ==
    /\ probe_pc = "head"
    /\ stream_info.url = << >>
    /\ result' = MissingUrlResult
    /\ probe_pc' = "done"
    /\ UNCHANGED <<stream_info, response, latency, http_log, parse_vars, run_vars>>

\* response = requests.head(...) returns; latency = time.time() - start
HeadResponds ==
    /\ probe_pc = "head"
    /\ stream_info.url # << >>
    /\ \E status \in StatusCodes, elapsed \in ElapsedTimes :
        /\ response' = [status_code |-> status, method |-> "HEAD"]
        /\ latency' = elapsed
        /\ http_log' = Append(http_log,
                              Sent("HEAD", stream_info.url, "response", status, elapsed))
        /\ probe_pc' = IF NeedsFallback(status) THEN "get" ELSE "return"
    /\ UNCHANGED <<stream_info, result, parse_vars, run_vars>>

\* requests.head(...) raises: one of the except clauses of the outer try returns
HeadRaises ==
    /\ probe_pc = "head"
    /\ stream_info.url # << >>
    /\ \E exc \in TransportErrors, elapsed \in ElapsedTimes :
        /\ http_log' = Append(http_log,
                              Sent("HEAD", stream_info.url, exc, 0, elapsed))
        /\ result' = ErrorResult(stream_info, exc)
    /\ probe_pc' = "done"
    /\ UNCHANGED <<stream_info, response, latency, parse_vars, run_vars>>

\* response = requests.get(..., stream=True) returns: the headers are in
GetResponds ==
    /\ probe_pc = "get"
    /\ \E status \in StatusCodes, elapsed \in ElapsedTimes :
        /\ response' = [status_code |-> status, method |-> "GET"]
        /\ http_log' = Append(http_log,
                              Sent("GET", stream_info.url, "response", status, elapsed))
    /\ probe_pc' = "read"
    /\ UNCHANGED <<stream_info, latency, result, parse_vars, run_vars>>

\* requests.get(...) raises: the inner except logs a warning and falls through
GetRaises ==
    /\ probe_pc = "get"
    /\ \E exc \in TransportErrors, elapsed \in ElapsedTimes :
        http_log' = Append(http_log, Sent("GET", stream_info.url, exc, 0, elapsed))
    /\ probe_pc' = "return"
    /\ UNCHANGED <<stream_info, response, latency, result, parse_vars, run_vars>>

\* next(response.iter_content(...), None) returns; latency = time.time() - start;
\* response.close()
ReadChunkReturns ==
    /\ probe_pc = "read"
    /\ \E elapsed \in ElapsedTimes :
        /\ elapsed >= http_log[Len(http_log)].elapsed
        /\ latency' = elapsed
        /\ http_log' = [http_log EXCEPT ![Len(http_log)].body = "read",
                                        ![Len(http_log)].elapsed = elapsed]
    /\ probe_pc' = "return"
    /\ UNCHANGED <<stream_info, response, result, parse_vars, run_vars>>

\* next(response.iter_content(...), None) raises: the inner except logs a
\* warning and falls through
ReadChunkRaises ==
    /\ probe_pc = "read"
    /\ http_log' = [http_log EXCEPT ![Len(http_log)].body = "raised"]
    /\ probe_pc' = "return"
    /\ UNCHANGED <<stream_info, response, latency, result, parse_vars, run_vars>>

\* return {'url': url, 'status': response.status_code, ...}
ReturnResponse ==
    /\ probe_pc = "return"
    /\ result' = ResponseResult(stream_info, response, latency)
    /\ probe_pc' = "done"
    /\ UNCHANGED <<stream_info, response, latency, http_log, parse_vars, run_vars>>

ProbeNext ==
    \/ ReturnMissingUrl
    \/ HeadResponds
    \/ HeadRaises
    \/ GetResponds
    \/ GetRaises
    \/ ReadChunkReturns
    \/ ReadChunkRaises
    \/ ReturnResponse

SpecProbe == ProbeInit /\ [][ProbeNext]_vars

(***************************************************************************)
(* scripts/generate_site_data.py: main, up to the catalog.                 *)
(***************************************************************************)

\* The orders in which a listing may give the paths of S.
Orderings(S) ==
    {f \in [1..Cardinality(S) -> S] : \A i, j \in 1..Cardinality(S) : i # j => f[i] # f[j]}

\* What STREAMS_DIR.glob('**/*.m3u') may give: any of the paths, in any order.
Listings == UNION {Orderings(S) : S \in SUBSET PlaylistPaths}

\* The urls of the playlist tree.
TreeUrls == {Strip(LineUrl1), Strip(LineUrl2), Strip(LineUrl3)}

\* The 'stations' maps of a validation-results file: some of the urls, each
\* 'ok' or 'failed' as the validator writes them, and one map with a status
\* of another spelling.
StatusMaps ==
    UNION {[S -> {"ok", "failed"}] : S \in SUBSET TreeUrls}
    \cup {(Strip(LineUrl1) :> "OK") @@ (Strip(LineUrl3) :> "ok")}

\* What may be at VALIDATION_RESULTS_FILE when a build starts.
ResultsFiles ==
    {Absent, Unparseable, Undecodable, [validation_time |-> CheckTime]}
    \cup {[stations |-> m, validation_time |-> CheckTime] : m \in StatusMaps}

\* Number of builds run one after the other on the same input.
MaxBuildRuns == 2

\* The exit status of the interpreter: 0 when main returns, 1 when an
\* exception leaves it.
ExitCode(exception_left_main) == IF exception_left_main THEN 1 ELSE 0

\* The record of a build that ended: what it wrote its catalog to, the
\* catalog, and its exit code.
BuildRecord(wrote, built, exit_code) ==
    [kind |-> "build", wrote |-> wrote, catalog |-> built, exit_code |-> exit_code]

\* validation_results = load_validation_results()
LoadValidationResults ==
    /\ build_pc = "load"
    /\ ~IsRaised(load_validation_results(disk))
    /\ validation_results' = load_validation_results(disk)
    /\ build_pc' = "glob"
    /\ UNCHANGED <<m3u_files, unreadable, todo_files, gathered, catalog, country_count,
                   genre_data, summary, prev_catalog, build_run,
                   disk, run_log, val_vars, parse_vars, probe_vars>>

\* validation_results = load_validation_results(), which raises: the
\* exception leaves main
LoadValidationResultsRaises ==
    /\ build_pc = "load"
    /\ IsRaised(load_validation_results(disk))
    /\ build_pc' = "failed"
    /\ run_log' = Append(run_log, BuildRecord(<< >>, None, ExitCode(TRUE)))
    /\ UNCHANGED <<m3u_files, unreadable, todo_files, gathered, validation_results, catalog,
                   country_count, genre_data, summary, prev_catalog, build_run,
                   disk, val_vars, parse_vars, probe_vars>>

\* m3u_files = sorted(STREAMS_DIR.glob('**/*.m3u'))
SortFiles ==
    /\ build_pc = "glob"
    /\ todo_files' = SortPaths(m3u_files)
    /\ build_pc' = "files"
    /\ UNCHANGED <<m3u_files, unreadable, gathered, validation_results, catalog,
                   country_count, genre_data, summary, prev_catalog,
                   build_run, disk, run_log, val_vars, parse_vars, probe_vars>>

\* open(file_path) in parse_m3u_file raises for this path: it is a regular
\* file the process may not read.
OpenRaises(path) == PlaylistTree[path].is_file /\ path \in unreadable

\* for file_path in m3u_files: one iteration
ProcessFile ==
    /\ build_pc = "files"
    /\ todo_files # << >>
    /\ ~OpenRaises(Head(todo_files))
    /\ gathered' = FileStep(gathered, Head(todo_files))
    /\ todo_files' = Tail(todo_files)
    /\ UNCHANGED <<m3u_files, unreadable, validation_results, catalog, country_count,
                   genre_data, summary, prev_catalog, build_run,
                   build_pc, disk, run_log, val_vars, parse_vars, probe_vars>>

\* for file_path in m3u_files: the iteration in which open raises; nothing
\* catches the OSError and it leaves main
ProcessFileRaises ==
    /\ build_pc = "files"
    /\ todo_files # << >>
    /\ OpenRaises(Head(todo_files))
    /\ build_pc' = "failed"
    /\ run_log' = Append(run_log, BuildRecord(<< >>, None, ExitCode(TRUE)))
    /\ UNCHANGED <<m3u_files, unreadable, todo_files, gathered, validation_results, catalog,
                   country_count, genre_data, summary, prev_catalog, build_run,
                   disk, val_vars, parse_vars, probe_vars>>

\* return all_stations, ... ; generate_metadata_catalog(all_stations,
\* validation_results), which writes METADATA_DIR / 'catalog.json'
GenerateCatalog ==
    /\ build_pc = "files"
    /\ todo_files = << >>
    /\ catalog' = generate_metadata_catalog(gathered.all_stations, validation_results,
                                            build_run)
    /\ disk' = [disk EXCEPT ![Site_catalog_file] = catalog']
    /\ build_pc' = "unified"
    /\ UNCHANGED <<m3u_files, unreadable, todo_files, gathered, validation_results,
                   country_count, genre_data, summary, prev_catalog,
                   build_run, run_log, val_vars, parse_vars, probe_vars>>

\* generate_unified_playlist(all_stations, OUTPUT_DIR / 'all_stations.m3u')
WriteUnifiedPlaylist ==
    /\ build_pc = "unified"
    /\ disk' = [disk EXCEPT ![unified_playlist_path] =
                                generate_unified_playlist(gathered.all_stations)]
    /\ build_pc' = "by_country"
    /\ UNCHANGED <<m3u_files, unreadable, todo_files, gathered, validation_results, catalog,
                   country_count, genre_data, summary, prev_catalog,
                   build_run, run_log, val_vars, parse_vars, probe_vars>>

\* country_count = generate_by_country_playlists(all_stations)
WriteCountryPlaylists ==
    /\ build_pc = "by_country"
    /\ disk' = [disk EXCEPT ![by_country_dir] =
                   WriteInto(@, CountryPlaylists(GroupByCountry(gathered.all_stations,
                                                                Len(gathered.all_stations))))]
    /\ country_count' = Cardinality(DOMAIN GroupByCountry(gathered.all_stations,
                                                          Len(gathered.all_stations)))
    /\ build_pc' = "genres"
    /\ UNCHANGED <<m3u_files, unreadable, todo_files, gathered, validation_results, catalog,
                   genre_data, summary, prev_catalog,
                   build_run, run_log, val_vars, parse_vars, probe_vars>>

\* genre_data = analyze_genres(all_stations)
AnalyzeGenres ==
    /\ build_pc = "genres"
    /\ genre_data' = analyze_genres(gathered.all_stations)
    /\ build_pc' = "summary"
    /\ UNCHANGED <<m3u_files, unreadable, todo_files, gathered, validation_results, catalog,
                   country_count, summary, prev_catalog,
                   build_run, disk, run_log, val_vars, parse_vars, probe_vars>>

\* summary = generate_summary_metadata(...), which writes OUTPUT_DIR /
\* 'summary.json'; main returns
WriteSummary ==
    /\ build_pc = "summary"
    /\ summary' = generate_summary_metadata(gathered.all_stations, gathered.country_counts,
                                            gathered.country_files, genre_data, build_run)
    /\ disk' = [disk EXCEPT ![summary_file] = summary']
    /\ run_log' = Append(run_log, BuildRecord(Site_catalog_file, catalog, ExitCode(FALSE)))
    /\ build_pc' = "done"
    /\ UNCHANGED <<m3u_files, unreadable, todo_files, gathered, validation_results, catalog,
                   country_count, genre_data, prev_catalog,
                   build_run, val_vars, parse_vars, probe_vars>>

\* The script is run again on the same playlist tree, listed as before.
BuildAgain ==
    /\ build_pc = "done"
    /\ build_run < MaxBuildRuns
    /\ prev_catalog' = catalog
    /\ build_run' = build_run + 1
    /\ todo_files' = << >>
    /\ gathered' = NoStations
    /\ validation_results' = None
    /\ catalog' = None
    /\ country_count' = 0
    /\ genre_data' = None
    /\ summary' = None
    /\ build_pc' = "load"
    /\ UNCHANGED <<m3u_files, unreadable, disk, run_log, val_vars, parse_vars, probe_vars>>

(***************************************************************************)
(* SpecBuild: catalog builds over any listing of the playlist tree and any *)
(* validation-results file, with every playlist file readable or one of    *)
(* them not.                                                               *)
(***************************************************************************)

\* The sets of files open() may refuse.
UnreadableSets == {{}, {PathDeA}}

BuildInit ==
    /\ ParseIdle
    /\ ProbeIdle
    /\ ValidateIdle
    /\ disk \in {[p \in DiskPaths |-> IF p = VALIDATION_RESULTS_FILE THEN r ELSE Absent] :
                    r \in ResultsFiles}
    /\ run_log = << >>
    /\ m3u_files \in Listings
    /\ unreadable \in UnreadableSets
    /\ todo_files = << >>
    /\ gathered = NoStations
    /\ validation_results = None
    /\ catalog = None
    /\ country_count = 0
    /\ genre_data = None
    /\ summary = None
    /\ prev_catalog = None
    /\ build_run = 1
    /\ build_pc = "load"

BuildNext ==
    \/ LoadValidationResults
    \/ LoadValidationResultsRaises
    \/ SortFiles
    \/ ProcessFile
    \/ ProcessFileRaises
    \/ GenerateCatalog
    \/ WriteUnifiedPlaylist
    \/ WriteCountryPlaylists
    \/ AnalyzeGenres
    \/ WriteSummary
    \/ BuildAgain

SpecBuild == BuildInit /\ [][BuildNext]_vars

(***************************************************************************)
(* SpecGenres: analyze_genres on any short list of stations, each with one *)
(* of a few genre lists; one of them has more genres than most_common      *)
(* keeps.                                                                  *)
(***************************************************************************)

MaxGenreStations == 2

\* TopGenres + 1 genres, all different: G01, G02, ...
ManyGenres ==
    [k \in 1..(TopGenres + 1) |-> <<"G", Digits[(k \div 10) + 1], Digits[(k % 10) + 1]>>]

\* The genre lists of the stations: what Genres gives for the group titles
\* "Jazz;Pop", "jazz", "Pop;Rock", "Rock;JAZZ;Rock", the ManyGenres joined,
\* the last two of them in lower case and the other way round, "" and
\* "Rock".
GenreLists ==
    {<< <<"J","a","z","z">>, <<"P","o","p">> >>,
     << <<"j","a","z","z">> >>,
     << <<"P","o","p">>, <<"R","o","c","k">> >>,
     << <<"R","o","c","k">>, <<"J","A","Z","Z">>, <<"R","o","c","k">> >>,
     ManyGenres,
     <<Lower(ManyGenres[TopGenres + 1]), Lower(ManyGenres[TopGenres])>>,
     << << >> >>,
     << <<"R","o","c","k">> >>}

\* The first station of streams/us/a.m3u with another group title.
GenreStations ==
    {[WithSource(ParsedTree[PathUsA], RelativePath(PathUsA))[1] EXCEPT !.genres = genres] :
        genres \in GenreLists}

\* The lists of at most MaxGenreStations of these stations.
GenreStationLists == UNION {[1..n -> GenreStations] : n \in 0..MaxGenreStations}

\* get_all_stations has returned stations, all of one file.
GatheredFrom(stations) ==
    [all_stations   |-> stations,
     country_counts |-> (stations[1].country_code :> Len(stations)),
     country_files  |-> <<[code  |-> stations[1].country_code,
                           file  |-> stations[1].source_file,
                           count |-> Len(stations)]>>]

GenresInit ==
    /\ ParseIdle
    /\ ProbeIdle
    /\ ValidateIdle
    /\ disk = [p \in DiskPaths |-> Absent]
    /\ run_log = << >>
    /\ m3u_files = <<PathUsA>>
    /\ unreadable = {}
    /\ todo_files = << >>
    /\ \E stations \in GenreStationLists :
          gathered = IF stations = << >> THEN NoStations ELSE GatheredFrom(stations)
    /\ validation_results = [stations |-> EmptyDict]
    /\ catalog = None
    /\ country_count = 0
    /\ genre_data = None
    /\ summary = None
    /\ prev_catalog = None
    /\ build_run = 1
    /\ build_pc = "genres"

GenresNext == AnalyzeGenres

SpecGenres == GenresInit /\ [][GenresNext]_vars

(***************************************************************************)
(* scripts/validate_streams.py: main.  The executor holds the submitted    *)
(* stream_infos in its queue; at most MAX_WORKERS worker threads take them *)
(* from it, first in first out, and run check_stream on them; a future is  *)
(* done when its check_stream has returned, and as_completed yields the    *)
(* futures that are done.  Two tasks with equal stream_infos are told      *)
(* apart by nothing the program reads, so the running tasks and the        *)
(* finished results are bags.                                              *)
(***************************************************************************)

MAX_WORKERS == 20

\* Status codes and transport errors the probes of a validation run end with.
RunStatusCodes == {200, 404}
RunErrors == {"Timeout"}
RunElapsedTimes == {104}

\* What check_stream can return for a stream.
ProbeResults(info) ==
    IF info.url = << >> THEN {MissingUrlResult}
    ELSE {ResponseResult(info, [status_code |-> s], t) :
             s \in RunStatusCodes, t \in RunElapsedTimes}
         \cup {ErrorResult(info, e) : e \in RunErrors}

\* [info['url'] for info in streams]
UrlsOf(streams) == [k \in 1..Len(streams) |-> streams[k].url]

\* The record of a validation run that ended.
ValidateRecord(loaded, streams, statuses, wrote, exit_code) ==
    [kind |-> "validate", read |-> CATALOG_FILE, loaded |-> loaded,
     probed |-> UrlsOf(streams), statuses |-> statuses, saved |-> wrote,
     exit_code |-> exit_code]

\* catalog = load_catalog(), which raises: the exception leaves main
CatalogRaises ==
    /\ val_pc = "load"
    /\ IsRaised(load_catalog(disk))
    /\ val_pc' = "done"
    /\ run_log' = Append(run_log, ValidateRecord(load_catalog(disk), << >>, EmptyDict,
                                                 FALSE, ExitCode(TRUE)))
    /\ UNCHANGED <<val_catalog, streams_to_check, pending, work_queue, executing,
                   finished, results, disk, build_vars, parse_vars, probe_vars>>

\* catalog = load_catalog(); if not catalog: return
CatalogMissing ==
    /\ val_pc = "load"
    /\ load_catalog(disk) \in {None, EmptyDict}
    /\ val_pc' = "done"
    /\ run_log' = Append(run_log, ValidateRecord(load_catalog(disk), << >>, EmptyDict,
                                                 FALSE, ExitCode(FALSE)))
    /\ UNCHANGED <<val_catalog, streams_to_check, pending, work_queue, executing,
                   finished, results, disk, build_vars, parse_vars, probe_vars>>

\* The catalog load_catalog returned is one main goes on with.
IsLoaded(loaded) == loaded \notin {None, EmptyDict} /\ ~IsRaised(loaded)

\* streams_to_check = extract_streams_from_catalog(catalog);
\* if not streams_to_check: return
NoStreams ==
    /\ val_pc = "load"
    /\ IsLoaded(load_catalog(disk))
    /\ extract_streams_from_catalog(load_catalog(disk)) = << >>
    /\ val_catalog' = load_catalog(disk)
    /\ val_pc' = "done"
    /\ run_log' = Append(run_log, ValidateRecord(load_catalog(disk), << >>, EmptyDict,
                                                 FALSE, ExitCode(FALSE)))
    /\ UNCHANGED <<streams_to_check, pending, work_queue, executing, finished, results,
                   disk, build_vars, parse_vars, probe_vars>>

\* results = {...}; with ThreadPoolExecutor(max_workers=MAX_WORKERS) as
\* executor: futures = []
StartPool ==
    /\ val_pc = "load"
    /\ IsLoaded(load_catalog(disk))
    /\ extract_streams_from_catalog(load_catalog(disk)) # << >>
    /\ val_catalog' = load_catalog(disk)
    /\ streams_to_check' = extract_streams_from_catalog(load_catalog(disk))
    /\ pending' = 0
    /\ work_queue' = << >>
    /\ executing' = EmptyBag
    /\ finished' = EmptyBag
    /\ results' = NewResults
    /\ val_pc' = "submit"
    /\ UNCHANGED <<disk, run_log, build_vars, parse_vars, probe_vars>>

\* for stream in streams_to_check: one iteration,
\* futures.append(executor.submit(check_stream, stream))
Submit ==
    /\ val_pc = "submit"
    /\ work_queue' = Append(work_queue, streams_to_check[pending + 1])
    /\ pending' = pending + 1
    /\ val_pc' = IF pending + 1 = Len(streams_to_check) THEN "collect" ELSE "submit"
    /\ UNCHANGED <<val_catalog, streams_to_check, executing, finished, results,
                   disk, run_log, build_vars, parse_vars, probe_vars>>

\* A pool that starts a thread for every task that waits.
CanStart_thread_per_task(running) == TRUE

\* A worker thread is free to take a task: the executor starts no more than
\* max_workers threads and each runs one task at a time.
CanStart(running) == BagCardinality(running) < MAX_WORKERS

\* A worker thread takes the oldest stream_info of the queue and calls
\* check_stream on it.
WorkerStart ==
    /\ val_pc \in {"submit", "collect"}
    /\ work_queue # << >>
    /\ CanStart(executing)
    /\ executing' = executing (+) SetToBag({Head(work_queue)})
    /\ work_queue' = Tail(work_queue)
    /\ UNCHANGED <<val_catalog, streams_to_check, pending, finished, results, val_pc,
                   disk, run_log, build_vars, parse_vars, probe_vars>>

\* check_stream returns in a worker thread: its future is done.
WorkerFinish ==
    /\ val_pc \in {"submit", "collect"}
    /\ \E info \in BagToSet(executing) :
          /\ \E res \in ProbeResults(info) : finished' = finished (+) SetToBag({res})
          /\ executing' = executing (-) SetToBag({info})
    /\ UNCHANGED <<val_catalog, streams_to_check, pending, work_queue, results, val_pc,
                   disk, run_log, build_vars, parse_vars, probe_vars>>

\* for future in as_completed(futures): one iteration, on a future that is
\* done
CollectResult ==
    /\ val_pc = "collect"
    /\ \E res \in BagToSet(finished) :
          /\ results' = Collected(results, res)
          /\ finished' = finished (-) SetToBag({res})
    /\ pending' = pending - 1
    /\ UNCHANGED <<val_catalog, streams_to_check, work_queue, executing, val_pc,
                   disk, run_log, build_vars, parse_vars, probe_vars>>

\* WriteResults without the wait for the futures: it saves what has been
\* collected so far.
WriteResults_no_wait ==
    /\ val_pc = "collect"
    /\ results' = FinalResults(results)
    /\ disk' = [disk EXCEPT ![RESULTS_FILE] = results']
    /\ run_log' = Append(run_log, ValidateRecord(val_catalog, streams_to_check,
                                                 results.stations, TRUE, ExitCode(FALSE)))
    /\ val_pc' = "done"
    /\ UNCHANGED <<val_catalog, streams_to_check, pending, work_queue, executing,
                   finished, build_vars, parse_vars, probe_vars>>

\* as_completed has yielded every future: success_rate, summary;
\* json.dump(results, RESULTS_FILE); main returns
WriteResults ==
    /\ val_pc = "collect"
    /\ pending = 0
    /\ results' = FinalResults(results)
    /\ disk' = [disk EXCEPT ![RESULTS_FILE] = results']
    /\ run_log' = Append(run_log, ValidateRecord(val_catalog, streams_to_check,
                                                 results.stations, TRUE, ExitCode(FALSE)))
    /\ val_pc' = "done"
    /\ UNCHANGED <<val_catalog, streams_to_check, pending, work_queue, executing,
                   finished, build_vars, parse_vars, probe_vars>>

(***************************************************************************)
(* SpecValidate: one validation run, over any of the catalog files below.  *)
(***************************************************************************)

\* A catalog that is at CATALOG_FILE from the start, not written by a build:
\* one station with two streams, the second without a url.
StaleCatalog ==
    [version |-> "1.0", updated |-> 0,
     stations |-> <<[id |-> <<"o","l","d">>, name |-> <<"O">>,
                     streams |-> <<[url |-> Strip(LineUrl1)], [format |-> "MP3"]>>]>>]

\* A catalog without stations.
EmptyCatalog == [version |-> "1.0", updated |-> 0, stations |-> << >>]

\* Streams of the largest catalog beyond what the pool runs at once.
MaxQueued == 1

\* A catalog of two stations and three streams, two of them with one url.
SmallCatalog ==
    [version |-> "1.0", updated |-> 0,
     stations |-> <<[id |-> <<"n">>, name |-> <<"N">>,
                     streams |-> <<[url |-> Strip(LineUrl1)], [url |-> Strip(LineUrl2)]>>],
                    [id |-> <<"m">>, name |-> <<"M">>,
                     streams |-> <<[url |-> Strip(LineUrl1)]>>]>>]

\* A catalog of one station with more streams than the pool has workers, none
\* with a url.
BigCatalog ==
    [version |-> "1.0", updated |-> 0,
     stations |-> <<[id |-> <<"b","i","g">>, name |-> <<"G">>,
                     streams |-> [k \in 1..(MAX_WORKERS + MaxQueued) |->
                                     [format |-> "MP3"]]]>>]

\* A results file of an earlier run, of another time.
OldResults ==
    [total |-> 1, working |-> 1, failed |-> 0,
     stations |-> (Strip(LineUrl3) :> "ok"), details |-> << >>,
     validation_time |-> "earlier", success_rate |-> 10000,
     summary |-> [working |-> 1, total |-> 1, percent |-> 1000, failed |-> 0]]

\* What may be at CATALOG_FILE when a validation run starts.
CatalogFiles ==
    {Absent, Unparseable, Undecodable, EmptyDict, EmptyCatalog, StaleCatalog,
     SmallCatalog, BigCatalog}

ValidateInit ==
    /\ ParseIdle
    /\ ProbeIdle
    /\ BuildIdle
    /\ disk \in {[p \in DiskPaths |-> IF p = CATALOG_FILE THEN c
                                      ELSE IF p = RESULTS_FILE THEN r ELSE Absent] :
                    c \in CatalogFiles, r \in {Absent, OldResults}}
    /\ run_log = << >>
    /\ val_catalog = None
    /\ streams_to_check = << >>
    /\ pending = 0
    /\ work_queue = << >>
    /\ executing = EmptyBag
    /\ finished = EmptyBag
    /\ results = None
    /\ val_pc = "load"

ValidateNext ==
    \/ CatalogRaises
    \/ CatalogMissing
    \/ NoStreams
    \/ StartPool
    \/ Submit
    \/ WorkerStart
    \/ WorkerFinish
    \/ CollectResult
    \/ WriteResults

SpecValidate == ValidateInit /\ [][ValidateNext]_vars

\* The main thread and the worker threads keep running, and every
\* check_stream that was called returns.
ValidateFairness ==
    /\ WF_vars(CatalogRaises \/ CatalogMissing \/ NoStreams \/ StartPool)
    /\ WF_vars(Submit)
    /\ WF_vars(WorkerStart)
    /\ WF_vars(WorkerFinish)
    /\ WF_vars(CollectResult)
    /\ WF_vars(WriteResults)

SpecValidateLive == ValidateInit /\ [][ValidateNext]_vars /\ ValidateFairness

(***************************************************************************)
(* SpecPipeline: the two scripts run one after the other, in any order,    *)
(* on one root directory.                                                  *)
(***************************************************************************)

\* Number of runs, of either script.
MaxRuns == 3

\* The listings of the playlist tree of the pipeline: two of the files.
PipelineListings == Orderings({PathUsA, PathDeA})

\* No run of either script is under way.
NoRunUnderWay == build_pc \in {"idle", "done", "failed"} /\ val_pc \in {"idle", "done"}

\* python scripts/generate_site_data.py
StartBuild ==
    /\ NoRunUnderWay
    /\ Len(run_log) < MaxRuns
    /\ m3u_files' \in PipelineListings
    /\ prev_catalog' = catalog
    /\ build_run' = build_run + 1
    /\ todo_files' = << >>
    /\ gathered' = NoStations
    /\ validation_results' = None
    /\ catalog' = None
    /\ country_count' = 0
    /\ genre_data' = None
    /\ summary' = None
    /\ build_pc' = "load"
    /\ UNCHANGED <<unreadable, disk, run_log, val_vars, parse_vars, probe_vars>>

\* python scripts/validate_streams.py
StartValidate ==
    /\ NoRunUnderWay
    /\ Len(run_log) < MaxRuns
    /\ val_catalog' = None
    /\ streams_to_check' = << >>
    /\ pending' = 0
    /\ work_queue' = << >>
    /\ executing' = EmptyBag
    /\ finished' = EmptyBag
    /\ results' = None
    /\ val_pc' = "load"
    /\ UNCHANGED <<disk, run_log, build_vars, parse_vars, probe_vars>>

PipelineInit ==
    /\ ParseIdle
    /\ ProbeIdle
    /\ BuildIdle
    /\ ValidateIdle
    /\ disk \in {[p \in DiskPaths |-> IF p = CATALOG_FILE THEN c ELSE Absent] :
                    c \in {Absent, Unparseable, Undecodable, StaleCatalog, EmptyCatalog}}
    /\ run_log = << >>

PipelineNext ==
    \/ StartBuild
    \/ LoadValidationResults
    \/ SortFiles
    \/ ProcessFile
    \/ GenerateCatalog
    \/ WriteUnifiedPlaylist
    \/ WriteCountryPlaylists
    \/ AnalyzeGenres
    \/ WriteSummary
    \/ StartValidate
    \/ CatalogRaises
    \/ CatalogMissing
    \/ NoStreams
    \/ StartPool
    \/ Submit
    \/ WorkerStart
    \/ WorkerFinish
    \/ CollectResult
    \/ WriteResults

SpecPipeline == PipelineInit /\ [][PipelineNext]_vars

(***************************************************************************)
(* Properties of check_stream (SpecProbe).                                 *)
(***************************************************************************)

\* The fallback GET was sent and ran to its end: headers and first chunk read.
FallbackCompleted ==
    /\ Len(http_log) = 2
    /\ http_log[2].outcome = "response"
    /\ http_log[2].body = "read"

\* The fallback GET was sent and failed: the request raised, or reading the
\* first chunk raised after the headers had come.
FallbackFailed ==
    /\ Len(http_log) = 2
    /\ (http_log[2].outcome # "response" \/ http_log[2].body = "raised")

\* C1 as stated: working iff the final status is in [200,400), the final status
\* being the GET's when the fallback completed and the HEAD's otherwise; a
\* probe that ends in a transport exception gives working = false, status = 0.
C1_WorkingIffFinalStatus ==
    (probe_pc = "done" /\ http_log # << >>) =>
        IF http_log[1].outcome # "response"
        THEN result.working = FALSE /\ result.status = 0
        ELSE LET final == IF FallbackCompleted THEN http_log[2].status
                                               ELSE http_log[1].status
             IN  result.working = (200 <= final /\ final < 400)

\* C2 as stated: when the fallback GET fails at any point, the returned status,
\* working flag and latency are those of the HEAD probe.
C2_FailedFallbackKeepsHead ==
    (probe_pc = "done" /\ FallbackFailed) =>
        /\ result.status = http_log[1].status
        /\ result.working = (200 <= http_log[1].status /\ http_log[1].status < 400)
        /\ result.latency = Round2(http_log[1].elapsed)

\* C3: at most two requests, a HEAD and then at most one GET, both to the
\* stream's url; the GET is sent iff the HEAD was answered with a status in
\* [400,500), never after another status or a HEAD that raised; nothing is
\* sent after the GET, whatever came of it.
C3_HeadThenAtMostOneGet ==
    /\ Len(http_log) <= 2
    /\ \A k \in 1..Len(http_log) :
          /\ http_log[k].method = (IF k = 1 THEN "HEAD" ELSE "GET")
          /\ http_log[k].url = stream_info.url
    /\ Len(http_log) = 2 =>
          /\ http_log[1].outcome = "response"
          /\ 400 <= http_log[1].status /\ http_log[1].status < 500
    /\ (/\ probe_pc \in {"return", "done"}
        /\ http_log # << >>
        /\ http_log[1].outcome = "response"
        /\ 400 <= http_log[1].status /\ http_log[1].status < 500)
          => Len(http_log) = 2
    /\ (probe_pc = "done" /\ stream_info.url # << >>) => http_log # << >>
    /\ stream_info.url = << >> => http_log = << >>

\* C3 witness: the call has returned after a HEAD answered 4xx and a fallback
\* GET that failed: two requests, and no third.
C3_Witness ==
    /\ probe_pc = "done"
    /\ FallbackFailed
    /\ http_log[1].status = 404

(***************************************************************************)
(* Properties of the parser (SpecParse).                                   *)
(***************************************************************************)

\* The lines of the pool that are blank, a comment or the header.
SkippedLines == {raw \in LinePool : IsSkipped(Strip(raw))}

\* The lines of the pool that are #EXTINF: lines EXTINF_PATTERN matches.
MatchedExtinfLines ==
    {raw \in LinePool :
        /\ ~IsSkipped(Strip(raw))
        /\ StartsWith(Strip(raw), ExtinfPrefix)
        /\ ExtinfSearch(Strip(raw)) # None}

\* The lines of the pool that are http:// or https:// url lines.
UrlLines ==
    {raw \in LinePool :
        /\ ~IsSkipped(Strip(raw))
        /\ ~StartsWith(Strip(raw), ExtinfPrefix)
        /\ IsUrl(Strip(raw))}

\* What the parser takes from each matched EXTINF line of the pool.
ExtinfFields ==
    [raw \in MatchedExtinfLines |->
        LET match == ExtinfSearch(Strip(raw))
        IN  [name |-> Strip(match.g3), logo |-> match.g1, genres |-> Genres(match.g2)]]

\* The url each url line of the pool stands for.
UrlOfLine == [raw \in UrlLines |-> Strip(raw)]

IsSkippedLine(raw) == raw \in SkippedLines
IsMatchedExtinf(raw) == raw \in MatchedExtinfLines
IsUrlLine(raw) == raw \in UrlLines

\* A matched EXTINF line at i is still waiting for its url just before line j.
PendingFrom(lines, i, j) ==
    /\ i < j
    /\ IsMatchedExtinf(lines[i])
    /\ \A m \in (i + 1)..(j - 1) : ~IsUrlLine(lines[m])

\* The url lines read while some matched EXTINF line was waiting for its url.
UrlsCompleting(lines) ==
    {j \in 1..Len(lines) :
        IsUrlLine(lines[j]) /\ \E i \in 1..(j - 1) : PendingFrom(lines, i, j)}

\* The k-th smallest element of a set of numbers.
KthSmallest(S, k) == CHOOSE j \in S : Cardinality({x \in S : x <= j}) = k

\* The station's metadata are those of the matched EXTINF line raw.
BuiltFromExtinf(station, raw) ==
    /\ station.name = ExtinfFields[raw].name
    /\ station.logo = ExtinfFields[raw].logo
    /\ station.genres = ExtinfFields[raw].genres

\* C4: at every point of the scan the stations are, in order, exactly the url
\* lines read while a matched EXTINF line was pending: each entry has all of
\* name, url, format, bitrate and id, its url is that url line and its
\* metadata come from a matched EXTINF line before it; a pending EXTINF is
\* never among the stations (so none is at end of input), and a url line read
\* with nothing pending adds nothing.
C4_EntryNeedsExtinfAndUrl ==
    LET st == parse_state.stations
        js == UrlsCompleting(file_lines)
    IN  /\ Len(st) = Cardinality(js)
        /\ \A k \in 1..Len(st) :
              LET j == KthSmallest(js, k)
              IN  /\ DOMAIN st[k] = EntryKeys
                  /\ st[k].url = UrlOfLine[file_lines[j]]
                  /\ \E i \in 1..(j - 1) :
                        /\ PendingFrom(file_lines, i, j)
                        /\ BuiltFromExtinf(st[k], file_lines[i])
        /\ parse_state.current_station # None
              => DOMAIN parse_state.current_station = PendingKeys

\* C4 witness: two well-formed entries, then an EXTINF line with no url, at
\* end of input: two stations, and the third entry still pending.
C4_Witness ==
    /\ parse_pc = "returned"
    /\ Len(file_lines) = 5
    /\ IsMatchedExtinf(file_lines[1]) /\ IsUrlLine(file_lines[2])
    /\ IsMatchedExtinf(file_lines[3]) /\ IsUrlLine(file_lines[4])
    /\ IsMatchedExtinf(file_lines[5])
    /\ Len(parse_state.stations) = 2
    /\ parse_state.current_station # None

\* This step reads the line raw while an entry is pending.
ReadsWhilePending(raw) ==
    /\ parse_pc = "reading"
    /\ parse_state.current_station # None
    /\ file_lines' = Append(file_lines, raw)

\* C5 as stated: while an entry is pending, every line that is not blank, not
\* a comment and not an http(s) url leaves the pending entry unchanged, a
\* well-formed #EXTINF line included.
C5_OtherLinesIgnored ==
    [][\A raw \in LinePool :
          (ReadsWhilePending(raw) /\ ~IsSkippedLine(raw) /\ ~IsUrlLine(raw))
              => parse_state'.current_station = parse_state.current_station]_vars

\* C5 amended: while an entry is pending, a line that is neither an http(s)
\* url nor a well-formed #EXTINF line changes nothing (blank, comment, an
\* #EXTINF line the pattern does not match, anything else); a well-formed
\* #EXTINF line replaces the pending entry by its own and adds no station; a
\* url line completes the entry that was pending just before it.
C5_PendingUntilUrlOrNewExtinf ==
    [][\A raw \in LinePool :
          ReadsWhilePending(raw) =>
              /\ (~IsUrlLine(raw) /\ ~IsMatchedExtinf(raw))
                    => parse_state' = parse_state
              /\ IsMatchedExtinf(raw)
                    => /\ parse_state'.stations = parse_state.stations
                       /\ parse_state'.current_station # None
                       /\ BuiltFromExtinf(parse_state'.current_station, raw)
              /\ IsUrlLine(raw)
                    => /\ parse_state'.current_station = None
                       /\ Len(parse_state'.stations) = Len(parse_state.stations) + 1
                       /\ LET e == parse_state'.stations[Len(parse_state'.stations)]
                          IN  /\ [f \in PendingKeys |-> e[f]] = parse_state.current_station
                              /\ e.url = UrlOfLine[raw]
                       /\ SubSeq(parse_state'.stations, 1, Len(parse_state.stations))
                              = parse_state.stations]_vars

\* C5 witness: a matched EXTINF line, then a line that is neither skipped, a
\* url nor a matched EXTINF, then a url line that completed that entry.
C5_Witness ==
    \E i \in 1..(Len(file_lines) - 2) :
        /\ IsMatchedExtinf(file_lines[i])
        /\ ~IsSkippedLine(file_lines[i + 1])
        /\ ~IsUrlLine(file_lines[i + 1])
        /\ ~IsMatchedExtinf(file_lines[i + 1])
        /\ IsUrlLine(file_lines[i + 2])
        /\ i + 2 = Len(file_lines)
        /\ parse_state.stations # << >>
        /\ BuiltFromExtinf(parse_state.stations[Len(parse_state.stations)], file_lines[i])

\* The file is n pairs: a matched EXTINF line, then at once its url line.
WellFormedPairs(lines) ==
    /\ Len(lines) % 2 = 0
    /\ \A k \in 1..(Len(lines) \div 2) :
          IsMatchedExtinf(lines[2 * k - 1]) /\ IsUrlLine(lines[2 * k])

\* C6 as stated: a file of n well-formed pairs gives n entries, in file order,
\* each with a non-empty name and a non-empty url equal to the pair's url line.
C6_OneEntryPerPair ==
    (parse_pc = "returned" /\ WellFormedPairs(file_lines)) =>
        LET st == parse_state.stations
        IN  /\ Len(st) = Len(file_lines) \div 2
            /\ \A k \in 1..Len(st) :
                  /\ BuiltFromExtinf(st[k], file_lines[2 * k - 1])
                  /\ st[k].url = UrlOfLine[file_lines[2 * k]]
                  /\ st[k].url # << >>
                  /\ st[k].name # << >>

(***************************************************************************)
(* Properties of the catalog build (SpecBuild).                            *)
(***************************************************************************)

\* Two stations agree on country code, name and url.
SameIdentity(a, b) == a.country_code = b.country_code /\ a.name = b.name /\ a.url = b.url

\* The ids of a catalog, in order.
IdsOf(cat) == [k \in 1..Len(cat.stations) |-> cat.stations[k].id]

\* C7: the id is a function of (country code, name, url): any two stations
\* gathered by a run that agree on the three have the same id, whatever their
\* logo, genres, place in the file, file and the entries parsed before them;
\* and a second run over the same input gives the ids of the first.
C7_IdIsFunctionOfIdentity ==
    /\ \A i, j \in 1..Len(gathered.all_stations) :
          SameIdentity(gathered.all_stations[i], gathered.all_stations[j])
              => gathered.all_stations[i].id = gathered.all_stations[j].id
    /\ (build_pc = "done" /\ prev_catalog # None) => IdsOf(catalog) = IdsOf(prev_catalog)

\* C7 witness: a second run has ended, with two stations that agree on the
\* three fields and differ in logo, genres, file and place.
C7_Witness ==
    /\ build_pc = "done"
    /\ prev_catalog # None
    /\ \E i, j \in 1..Len(gathered.all_stations) :
          /\ i # j
          /\ SameIdentity(gathered.all_stations[i], gathered.all_stations[j])
          /\ gathered.all_stations[i].logo # gathered.all_stations[j].logo
          /\ gathered.all_stations[i].genres # gathered.all_stations[j].genres
          /\ gathered.all_stations[i].source_file # gathered.all_stations[j].source_file

\* The url is a key of the stations map of the validation-results file.
KnownUrl(file, url) == "stations" \in DOMAIN file /\ url \in DOMAIN file.stations

\* The reliability the claim gives a url, in hundredths.
ClaimedReliability(file, url) ==
    IF KnownUrl(file, url) THEN (IF file.stations[url] = "ok" THEN 95 ELSE 30) ELSE 50

\* The reliabilities of the streams of the catalog.
ReliabilitiesOf(cat) ==
    {cat.stations[k].streams[s].reliability :
        k \in 1..Len(cat.stations), s \in {1}}

\* C8: in the catalog a build wrote, the reliability of every station's stream
\* is 0.95 when the validation-results file maps its url to "ok", 0.3 when it
\* maps it to anything else, 0.5 when the url is not in the map; and nothing
\* else.
C8_ReliabilityMapping ==
    build_pc = "done" =>
        \A k \in 1..Len(catalog.stations) :
            /\ Len(catalog.stations[k].streams) = 1
            /\ catalog.stations[k].streams[1].reliability \in {95, 30, 50}
            /\ catalog.stations[k].streams[1].reliability =
                  ClaimedReliability(disk[VALIDATION_RESULTS_FILE],
                                     catalog.stations[k].streams[1].url)

\* C8 witness: a catalog with a stream of each of the three reliabilities.
C8_Witness ==
    /\ build_pc = "done"
    /\ ReliabilitiesOf(catalog) = {95, 30, 50}

\* The sum of the counts of the first n entries of country_files.
RECURSIVE SumOfCounts(_, _)
SumOfCounts(files, n) == IF n = 0 THEN 0 ELSE SumOfCounts(files, n - 1) + files[n].count

\* The sum of the counts of the countries of S.
RECURSIVE SumOfCountries(_, _)
SumOfCountries(counts, S) ==
    IF S = {} THEN 0
    ELSE LET c == CHOOSE x \in S : TRUE
         IN  counts[c] + SumOfCountries(counts, S \ {c})

\* The path of the tree whose relative path is rel.
PathOfFile(rel) == CHOOSE p \in PlaylistPaths : RelativePath(p) = rel

\* The stations all_stations holds for the i-th entry of country_files.
StationsOfFile(files, stations, i) ==
    SubSeq(stations, SumOfCounts(files, i - 1) + 1, SumOfCounts(files, i))

\* The regular files of a listing, as relative paths.
RegularFiles(listing) ==
    {RelativePath(listing[k]) : k \in {n \in 1..Len(listing) : PlaylistTree[listing[n]].is_file}}

\* C9: the per-file counts, the per-country counts and all_stations agree in
\* size; all_stations holds the files in sorted path order and each file's
\* entries in the order of the file; once the build has ended every regular
\* file of the listing is there and the catalog has the same stations in the
\* same order.
C9_CountsAndOrder ==
    /\ SumOfCounts(gathered.country_files, Len(gathered.country_files))
          = Len(gathered.all_stations)
    /\ SumOfCountries(gathered.country_counts, DOMAIN gathered.country_counts)
          = Len(gathered.all_stations)
    /\ \A i, j \in 1..Len(gathered.country_files) :
          i < j => PathLess(PathOfFile(gathered.country_files[i].file),
                            PathOfFile(gathered.country_files[j].file))
    /\ \A i \in 1..Len(gathered.country_files) :
          StationsOfFile(gathered.country_files, gathered.all_stations, i)
            = WithSource(parse_m3u_file(
                             PlaylistTree[PathOfFile(gathered.country_files[i].file)].lines,
                             PathOfFile(gathered.country_files[i].file)[2]),
                         gathered.country_files[i].file)
    /\ build_pc = "done" =>
          /\ {gathered.country_files[i].file : i \in 1..Len(gathered.country_files)}
                = RegularFiles(m3u_files)
          /\ Len(catalog.stations) = Len(gathered.all_stations)
          /\ \A k \in 1..Len(catalog.stations) :
                /\ catalog.stations[k].id = gathered.all_stations[k].id
                /\ catalog.stations[k].name = gathered.all_stations[k].name
                /\ catalog.stations[k].streams[1].url = gathered.all_stations[k].url
                /\ catalog.stations[k].source = gathered.all_stations[k].source_file

\* C9 witness: a build has ended whose listing was not sorted and held a
\* directory and three files, two of them of one country.
C9_Witness ==
    /\ build_pc = "done"
    /\ Len(gathered.country_files) = 3
    /\ Len(m3u_files) = 4
    /\ \E i, j \in 1..Len(m3u_files) : i < j /\ PathLess(m3u_files[j], m3u_files[i])
    /\ Cardinality(DOMAIN gathered.country_counts) = 2
    /\ Len(catalog.stations) = 5

(***************************************************************************)
(* Properties of the runs of the two scripts (SpecPipeline).               *)
(***************************************************************************)

\* The urls of the streams of a catalog.
CatalogUrls(cat) ==
    {cat.stations[k].streams[1].url : k \in 1..Len(cat.stations)}

\* The urls a validation run probed.
ProbedUrls(run) == {run.probed[k] : k \in 1..Len(run.probed)}

\* The url was probed as working in the validation run.
ProbedWorking(run, url) == url \in DOMAIN run.statuses /\ run.statuses[url] = "ok"

\* C10 as stated: a validation run that follows a build reads the file the
\* build wrote, loads that catalog and probes its urls; and a build that
\* follows the validation run gives 0.95 to every url probed as working.
C10_HandOffClosesLoop ==
    \A k \in 1..(Len(run_log) - 1) :
        (run_log[k].kind = "build" /\ run_log[k + 1].kind = "validate") =>
            /\ run_log[k + 1].read = run_log[k].wrote
            /\ run_log[k + 1].loaded = run_log[k].catalog
            /\ ProbedUrls(run_log[k + 1]) = CatalogUrls(run_log[k].catalog)
            /\ (k + 2 <= Len(run_log) /\ run_log[k + 2].kind = "build") =>
                  \A n \in 1..Len(run_log[k + 2].catalog.stations) :
                      ProbedWorking(run_log[k + 1],
                                    run_log[k + 2].catalog.stations[n].streams[1].url)
                        => run_log[k + 2].catalog.stations[n].streams[1].reliability = 95

(***************************************************************************)
(* Properties of a validation run (SpecValidate, SpecValidateLive).        *)
(***************************************************************************)

\* The url a detail record stands for: the missing-url dict carries None.
DetailUrl(res) == IF "station_id" \in DOMAIN res THEN res.url ELSE << >>

\* The number of detail records for url, and of submitted streams with it.
DetailsWithUrl(details, url) ==
    Cardinality({k \in 1..Len(details) : DetailUrl(details[k]) = url})
StreamsWithUrl(streams, url) ==
    Cardinality({k \in 1..Len(streams) : streams[k].url = url})

\* A pool has been set up in this run.
PoolRuns == val_pc \in {"submit", "collect"} \/ (val_pc = "done" /\ results # None)

\* Every submitted task is in one place: waiting, running, done and not yet
\* yielded, or collected.
TasksAccounted ==
    PoolRuns =>
        /\ Len(work_queue) + BagCardinality(executing) + BagCardinality(finished) = pending
        /\ Len(results.details) = results.total
        /\ results.total = results.working + results.failed
        /\ pending + results.total <= Len(streams_to_check)

\* The file at RESULTS_FILE is the one this run wrote.
ResultsWritten ==
    /\ val_pc = "done"
    /\ "details" \in DOMAIN disk[RESULTS_FILE]
    /\ disk[RESULTS_FILE].validation_time = CheckTime

\* The written file has one detail record for every submitted stream.
OneDetailPerStream ==
    ResultsWritten =>
        /\ disk[RESULTS_FILE].total = Len(streams_to_check)
        /\ Len(disk[RESULTS_FILE].details) = Len(streams_to_check)
        /\ \A k \in 1..Len(streams_to_check) :
              DetailsWithUrl(disk[RESULTS_FILE].details, streams_to_check[k].url)
                = StreamsWithUrl(streams_to_check, streams_to_check[k].url)
        /\ \A k \in 1..Len(disk[RESULTS_FILE].details) :
              \E n \in 1..Len(streams_to_check) :
                  disk[RESULTS_FILE].details[k] \in ProbeResults(streams_to_check[n])

\* A step that changes the results file is the last of the run and comes
\* when every submitted task's result has been collected; nothing changes the
\* file after it.
WrittenOnceAtTheEnd ==
    /\ disk'[RESULTS_FILE] # disk[RESULTS_FILE] =>
          /\ val_pc = "collect" /\ val_pc' = "done"
          /\ pending = 0
          /\ work_queue = << >> /\ executing = EmptyBag /\ finished = EmptyBag
          /\ results.total = Len(streams_to_check)
    /\ val_pc = "done" => disk' = disk

\* C11: every submitted stream ends with exactly one detail record whatever
\* its probe gave; the results file is written once, after the result of
\* every submitted task has been collected; and when every probe returns, a
\* run that submitted streams ends with the file written and total equal to
\* the number of submitted streams.
C11_AllCollectedThenWritten ==
    /\ [](TasksAccounted /\ OneDetailPerStream)
    /\ [][WrittenOnceAtTheEnd]_vars
    /\ (val_pc = "submit" ~>
            (ResultsWritten /\ disk[RESULTS_FILE].total = Len(streams_to_check)))

\* C11 witness: a run over three streams has written its file; one probe
\* ended in a transport error, one in a 404 and one found the stream working.
C11_Witness ==
    /\ ResultsWritten
    /\ Len(streams_to_check) = 3
    /\ \E i, j, k \in 1..3 :
          /\ "error" \in DOMAIN disk[RESULTS_FILE].details[i]
          /\ disk[RESULTS_FILE].details[j].status = 404
          /\ disk[RESULTS_FILE].details[k].working

\* rate is num / den expressed in 1/scale, to the nearest.
IsNearestRatio(rate, num, den, scale) ==
    /\ 2 * (rate * den - num * scale) <= den
    /\ 2 * (num * scale - rate * den) <= den

\* The run has ended without submitting a stream.
EndedWithoutStreams == val_pc = "done" /\ streams_to_check = << >>

\* C12 as stated: the success rate a run reports equals working/total when
\* total > 0 (the rate is held in ten-thousandths), and 0 when total = 0.
C12_RateIsWorkingOverTotal ==
    ResultsWritten =>
        IF disk[RESULTS_FILE].total > 0
        THEN disk[RESULTS_FILE].success_rate * disk[RESULTS_FILE].total
                = disk[RESULTS_FILE].working * 10000
        ELSE disk[RESULTS_FILE].success_rate = 0

\* C12 amended: a run that writes its file has total > 0 and reports
\* working/total rounded to four decimal places, between 0 and 1; a run over
\* a catalog without streams ends before the rate is computed and reports
\* nothing: no division by zero either way.
C12_RateIsRoundedRatio ==
    /\ ResultsWritten =>
          /\ disk[RESULTS_FILE].total > 0
          /\ disk[RESULTS_FILE].working <= disk[RESULTS_FILE].total
          /\ disk[RESULTS_FILE].success_rate \in 0..10000
          /\ IsNearestRatio(disk[RESULTS_FILE].success_rate, disk[RESULTS_FILE].working,
                            disk[RESULTS_FILE].total, 10000)
    /\ EndedWithoutStreams =>
          /\ results = None
          /\ ~ResultsWritten
          /\ ~run_log[Len(run_log)].saved

\* C12 witness: a run has reported one working stream of three, 0.3333.
C12_Witness ==
    /\ ResultsWritten
    /\ disk[RESULTS_FILE].total = 3
    /\ disk[RESULTS_FILE].working = 1
    /\ disk[RESULTS_FILE].success_rate = 3333

\* There is no catalog file, or none that can be parsed.
NoUsableCatalog == disk[CATALOG_FILE] \in {Absent, Unparseable, Undecodable}

\* No stream has been submitted and no result collected.
NothingSubmitted ==
    /\ streams_to_check = << >>
    /\ pending = 0
    /\ work_queue = << >> /\ executing = EmptyBag /\ finished = EmptyBag
    /\ results = None

\* The step a run takes from its start when there is no usable catalog: it
\* ends the run, and leaves every file as it was.
AbortsUntouched ==
    (val_pc = "load" /\ NoUsableCatalog) =>
        /\ val_pc' = "done"
        /\ disk' = disk
        /\ Len(run_log') = Len(run_log) + 1
        /\ run_log'[Len(run_log')].probed = << >>
        /\ ~run_log'[Len(run_log')].saved

\* C13: when the catalog file is missing or cannot be parsed, the run ends
\* with its first step, no stream is ever submitted to the pool, and the
\* results file stays absent or keeps the content it had.
C13_NoCatalogNoOutput ==
    /\ [](NoUsableCatalog =>
             /\ NothingSubmitted
             /\ disk[RESULTS_FILE] \in {Absent, OldResults}
             /\ ~ResultsWritten)
    /\ [][AbortsUntouched]_vars

\* C13 witness: a run over a catalog that is not JSON has ended, and the
\* results file of an earlier run is still there.
C13_Witness ==
    /\ val_pc = "done"
    /\ disk[CATALOG_FILE] = Unparseable
    /\ disk[RESULTS_FILE] = OldResults
    /\ Len(run_log) = 1
    /\ ~run_log[1].saved

\* C14 as stated: a run that finds no catalog file ends with an exit code
\* other than 0, and a run that wrote its results ends with exit code 0.
C14_ExitCodeTellsMissingCatalog ==
    (val_pc = "done" /\ run_log # << >>) =>
        /\ disk[CATALOG_FILE] = Absent => run_log[Len(run_log)].exit_code # 0
        /\ run_log[Len(run_log)].saved => run_log[Len(run_log)].exit_code = 0

\* The number of elements of the bag B that stand for url, by key.
RunningWithUrl(B, url) ==
    BagCardinality([info \in {i \in BagToSet(B) : i.url = url} |-> B[info]])
FinishedWithUrl(B, url) ==
    BagCardinality([res \in {r \in BagToSet(B) : DetailUrl(r) = url} |-> B[res]])

\* The streams submitted so far, and those among them a worker has taken.
Submitted == SubSeq(streams_to_check, 1, pending + results.total)
Taken == SubSeq(Submitted, 1, Len(Submitted) - Len(work_queue))

\* C20: at every moment of a run at most MAX_WORKERS probe tasks are being
\* executed; the tasks are taken from the queue in the order of submission,
\* and every task taken is being executed, or has been executed, once: for
\* every url the tasks running, done and collected are as many as the taken
\* streams with that url.
C20_PoolIsBounded ==
    PoolRuns =>
        /\ BagCardinality(executing) <= MAX_WORKERS
        /\ Len(work_queue) <= Len(Submitted)
        /\ work_queue = SubSeq(Submitted, Len(Taken) + 1, Len(Submitted))
        /\ BagCardinality(executing) + BagCardinality(finished) + results.total = Len(Taken)
        /\ \A k \in 1..Len(streams_to_check) :
              RunningWithUrl(executing, streams_to_check[k].url)
                + FinishedWithUrl(finished, streams_to_check[k].url)
                + DetailsWithUrl(results.details, streams_to_check[k].url)
              = StreamsWithUrl(Taken, streams_to_check[k].url)
        /\ val_pc = "done" => Len(Taken) = Len(streams_to_check)

\* C20 witness: MAX_WORKERS probes are running and a submitted task waits in
\* the queue.
C20_Witness ==
    /\ val_pc = "collect"
    /\ BagCardinality(executing) = MAX_WORKERS
    /\ work_queue # << >>

(***************************************************************************)
(* C15. A validation-results file that is absent or cannot be parsed       *)
(* leaves the catalog build standing: the results count as empty, every    *)
(* parsed station is emitted and every station gets reliability 0.5.       *)
(***************************************************************************)

\* The prior validation-results file is absent, is not JSON, or is not text
\* json.load can decode.
ResultsUnusable == disk[VALIDATION_RESULTS_FILE] \in {Absent, Unparseable, Undecodable}

\* Every station of the catalog has the default reliability.
AllDefaultReliability(cat) ==
    \A k \in 1..Len(cat.stations) : cat.stations[k].streams[1].reliability = 50

\* C15: in a build whose playlist files can all be read, an absent or
\* unparseable validation-results file does not make the build fail; the
\* results are taken as empty, and the catalog holds every parsed station,
\* each with reliability 0.5.
C15_UnusableResultsAreEmpty ==
    (ResultsUnusable /\ unreadable = {}) =>
        /\ build_pc # "failed"
        /\ build_pc \notin {"load", "failed"} =>
              ValidationStations(validation_results) = EmptyDict
        /\ build_pc = "done" =>
              /\ Len(catalog.stations) = Len(gathered.all_stations)
              /\ AllDefaultReliability(catalog)

(***************************************************************************)
(* C16. A playlist file that is missing or cannot be read is skipped; the  *)
(* other files are parsed and the build goes on.                           *)
(***************************************************************************)

\* The files of the listing that are regular files open() accepts, as
\* get_all_stations names them.
ReadableFiles(listing) ==
    {RelativePath(listing[i]) :
        i \in {j \in 1..Len(listing) : /\ PlaylistTree[listing[j]].is_file
                                       /\ listing[j] \notin unreadable}}

\* C16: in a build that loaded its validation results, a playlist file that
\* is not a regular file or that cannot be opened does not make the build
\* fail; the build ends with the stations of every readable file gathered.
C16_UnreadableFileSkipped ==
    disk[VALIDATION_RESULTS_FILE] # Undecodable =>
        /\ build_pc # "failed"
        /\ build_pc = "done" =>
              {gathered.country_files[i].file : i \in 1..Len(gathered.country_files)}
                 = ReadableFiles(m3u_files)

(***************************************************************************)
(* C17. Writing the stations with generate_unified_playlist and parsing    *)
(* the file again gives back the same (name, url, genres) tuples.          *)
(***************************************************************************)

\* The (name, url, genres) tuples of a station sequence.
StationTuples(stations) ==
    {<<stations[k].name, stations[k].url, stations[k].genres>> : k \in 1..Len(stations)}

\* file_path.parent.name for the unified playlist: the last component of
\* OUTPUT_DIR, spelled out.
UnifiedParent == <<"s","i","t","e","_","d","a","t","a">>

\* parse_m3u_file on the unified playlist.
ReparsedUnified == parse_m3u_file(disk[unified_playlist_path], UnifiedParent)

\* The unified playlist of this build is on disk.
UnifiedWritten == build_pc \in {"by_country", "genres", "summary", "done"}

\* C17: once generate_unified_playlist has written the stations the parser
\* produced, parsing that file yields the same set of (name, url, genres)
\* tuples: every station comes back with the same genre strings, as many as
\* it had.
C17_UnifiedRoundTrip ==
    UnifiedWritten => StationTuples(ReparsedUnified) = StationTuples(gathered.all_stations)

(***************************************************************************)
(* C18. generate_by_country_playlists partitions the stations by their     *)
(* lower-cased country code.                                               *)
(***************************************************************************)

\* The country playlists of this build are on disk.
CountryPlaylistsWritten == build_pc \in {"genres", "summary", "done"}

\* The stations of a country, in the order of the input sequence.
StationsOf(stations, code) ==
    SelectSeq(stations, LAMBDA station : Lower(station.country_code) = code)

\* The lower-cased country codes of the stations.
LowerCodes(stations) == {Lower(stations[k].country_code) : k \in 1..Len(stations)}

\* A written playlist holds exactly these stations, in this order: after
\* the header, one #EXTINF line and one url line for each.
HoldsInOrder(file, stations) ==
    /\ Len(file) = 1 + 2 * Len(stations)
    /\ \A k \in 1..Len(stations) :
          /\ file[2 * k] = ExtinfText(stations[k].logo, Join(stations[k].genres, <<";">>),
                                      stations[k].name) \o <<"\n">>
          /\ file[2 * k + 1] = stations[k].url \o <<"\n">>

\* The number of stations in each written playlist.
PlaylistSizes(files) == [code \in DOMAIN files |-> (Len(files[code]) - 1) \div 2]

\* The playlists in files are the partition of stations by lower-cased
\* country code.
IsPartitionByCountry(files, stations) ==
    /\ DOMAIN files = LowerCodes(stations)
    /\ \A code \in DOMAIN files : HoldsInOrder(files[code], StationsOf(stations, code))
    /\ SumOfCountries(PlaylistSizes(files), DOMAIN files) = Len(stations)

\* C18: once generate_by_country_playlists has run, there is one playlist
\* for each lower-cased country code; the playlist of a code holds exactly
\* the stations with that code, in their order in the input sequence; the
\* sizes of the playlists sum to the number of stations; and the count
\* returned is the number of distinct lower-cased codes.
C18_PartitionByCountry ==
    CountryPlaylistsWritten =>
        /\ IsPartitionByCountry(disk[by_country_dir].files, gathered.all_stations)
        /\ country_count = Cardinality(LowerCodes(gathered.all_stations))

\* Playlists for two countries are written, and the stations of one country
\* have a station of another between them in the input.
C18_Witness ==
    /\ CountryPlaylistsWritten
    /\ country_count = 2
    /\ \E i, j, k \in 1..Len(gathered.all_stations) :
          /\ i < j /\ j < k
          /\ gathered.all_stations[i].country_code = gathered.all_stations[k].country_code
          /\ gathered.all_stations[i].country_code # gathered.all_stations[j].country_code

(***************************************************************************)
(* C19. analyze_genres counts the genre tags without regard to case and    *)
(* reports the number of distinct genres and the 50 most frequent, ties in *)
(* first-seen order.                                                       *)
(***************************************************************************)

\* The genre tags of each station, in lower case.
LowerTags(stations) ==
    AsList([s \in 1..Len(stations) |->
               AsList([k \in 1..Len(stations[s].genres) |-> Lower(stations[s].genres[k])])])

\* The places of these tags: <<s, k>> is the k-th genre of station s.
PlacesOf(tags) == UNION {{<<s, k>> : k \in 1..Len(tags[s])} : s \in 1..Len(tags)}

\* The places where genre occurs, in any case.
Occurrences(tags, genre) == {p \in PlacesOf(tags) : tags[p[1]][p[2]] = genre}

\* The distinct lower-cased genres.
LowerGenres(tags) == {tags[p[1]][p[2]] : p \in PlacesOf(tags)}

\* Place p comes before place q when the stations are read in order.
Earlier(p, q) == p[1] < q[1] \/ (p[1] = q[1] /\ p[2] < q[2])

\* genre is met before other.
SeenBefore(tags, genre, other) ==
    \E p \in Occurrences(tags, genre) : \A q \in Occurrences(tags, other) : Earlier(p, q)

\* a goes before b in the report: it occurs more often, or as often and is
\* met first.
RanksBefore(tags, a, b, count_a, count_b) ==
    count_a > count_b \/ (count_a = count_b /\ SeenBefore(tags, a, b))

\* Every entry of top carries the number of occurrences of its genre.
CountsAreOccurrences(tags, top) ==
    \A i \in 1..Len(top) : top[i].count = Cardinality(Occurrences(tags, top[i].name))

\* top is in rank order, and no genre left out ranks before its last entry.
IsRanked(tags, top) ==
    /\ \A i \in 1..(Len(top) - 1) :
          RanksBefore(tags, top[i].name, top[i + 1].name, top[i].count, top[i + 1].count)
    /\ \A genre \in LowerGenres(tags) \ {top[i].name : i \in 1..Len(top)} :
          RanksBefore(tags, top[Len(top)].name, genre, top[Len(top)].count,
                      Cardinality(Occurrences(tags, genre)))

\* The genre lists of the stations tagged Jazz;Pop and jazz, and what the
\* analyzer is to report for them.
JazzPopThenJazz == << << <<"J","a","z","z">>, <<"P","o","p">> >>, << <<"j","a","z","z">> >> >>
JazzTwoPopOne ==
    [total_unique_genres |-> 2,
     top_genres |-> <<[name |-> <<"j","a","z","z">>, count |-> 2],
                      [name |-> <<"p","o","p">>, count |-> 1]>>]

\* The genre lists of the stations, in order.
GenreListsOf(stations) == [s \in 1..Len(stations) |-> stations[s].genres]

\* data reports the genres of the stations whose lower-cased genre tags are
\* tags: their number, and the most frequent with their counts, in order.
IsGenreAnalysis(data, tags) ==
    /\ data.total_unique_genres = Cardinality(LowerGenres(tags))
    /\ Len(data.top_genres) <= TopGenres
    /\ Len(data.top_genres) = Min({TopGenres, data.total_unique_genres})
    /\ {data.top_genres[i].name : i \in 1..Len(data.top_genres)} \subseteq LowerGenres(tags)
    /\ CountsAreOccurrences(tags, data.top_genres)
    /\ IsRanked(tags, data.top_genres)

\* C19: the report of analyze_genres gives, for each genre it lists, the
\* number of occurrences of that genre in any case over all stations; its
\* total_unique_genres is the number of distinct lower-cased genres; its
\* top_genres has at most 50 entries, the most frequent genres in
\* non-increasing order of count, those of equal count in the order they
\* were first met; and stations tagged Jazz;Pop and jazz give jazz: 2,
\* pop: 1 and 2 distinct genres.
C19_GenreCounts ==
    build_pc = "summary" =>
        /\ IsGenreAnalysis(genre_data, LowerTags(gathered.all_stations))
        /\ GenreListsOf(gathered.all_stations) = JazzPopThenJazz => genre_data = JazzTwoPopOne

\* More than 50 distinct genres were counted, and among those reported a
\* genre met later than 50 others stands before genres of smaller count.
C19_Witness ==
    /\ build_pc = "summary"
    /\ genre_data.total_unique_genres > TopGenres
    /\ Len(genre_data.top_genres) = TopGenres
    /\ genre_data.top_genres[2].name = Lower(ManyGenres[TopGenres + 1])
    /\ genre_data.top_genres[2].count = 2
    /\ genre_data.top_genres[3].count = 1

(***************************************************************************)
(* C21. The loop over the completed futures is the only writer of the      *)
(* aggregate results; whatever the order in which the tasks complete, the  *)
(* counters agree with the detail records and every completed task is      *)
(* counted once.                                                           *)
(***************************************************************************)

\* The records of a list, each as many times as it is in the list.
BagOfList(list) ==
    [x \in {list[k] : k \in 1..Len(list)} |-> Cardinality({k \in 1..Len(list) : list[k] = x})]

\* The results of the tasks that have completed: those collected and those
\* as_completed has yet to yield.
CompletedResults(rs, done) == BagOfList(rs.details) (+) done

\* The counters agree with each other and with the detail records.
CountersAgree ==
    PoolRuns =>
        /\ results.total = results.working + results.failed
        /\ results.total = Len(results.details)
        /\ results.working = Cardinality({k \in 1..Len(results.details) :
                                             results.details[k].working})

\* A step of a worker thread: a task starts or completes.
WorkerStep == executing' # executing

\* A step of the loop over the completed futures.
CollectorStep == val_pc = "collect" /\ val_pc' = "collect" /\ pending' = pending - 1

\* The last step of a run with a pool: the rate and the summary are added
\* and the file is written.
ClosingStep == val_pc = "collect" /\ val_pc' = "done"

\* What a step may do to the aggregate results. A worker thread leaves them
\* alone, and takes no completed result away. The collector adds one record,
\* the one it takes from the completed futures: the completed results stay
\* the same. The closing step keeps the counters, the records and the map.
\* No other step changes the results or the completed futures.
OnlyCollectorWrites ==
    /\ WorkerStep => (results' = results /\ finished \sqsubseteq finished')
    /\ (PoolRuns /\ results' # results /\ ~ClosingStep) => CollectorStep
    /\ CollectorStep =>
          /\ results'.total = results.total + 1
          /\ Len(results'.details) = Len(results.details) + 1
          /\ CompletedResults(results', finished') = CompletedResults(results, finished)
    /\ (PoolRuns /\ finished' # finished) => (WorkerStep \/ CollectorStep)
    /\ ClosingStep =>
          /\ results'.total = results.total
          /\ results'.working = results.working
          /\ results'.failed = results.failed
          /\ results'.details = results.details
          /\ results'.stations = results.stations

\* C21: only the loop over the completed futures changes the aggregate
\* results, a worker thread never does; after each collected result total =
\* working + failed = the number of detail records; and in every order of
\* completion each completed task's result is collected once: none is lost
\* and none is counted twice.
C21_CollectorIsSoleWriter == []CountersAgree /\ [][OnlyCollectorWrites]_vars

\* Two results are collected, the first of them for the stream submitted
\* second, while a third task has completed and waits to be collected.
C21_Witness ==
    /\ val_pc = "collect"
    /\ Len(streams_to_check) = 3
    /\ results.total = 2
    /\ DetailUrl(results.details[1]) = streams_to_check[2].url
    /\ DetailUrl(results.details[2]) = streams_to_check[1].url
    /\ BagCardinality(finished) = 1

(***************************************************************************)
(* C22. The final counters and the final per-url status map depend on the  *)
(* outcomes of the probes only, not on the order in which the tasks        *)
(* complete.                                                               *)
(***************************************************************************)

\* The non-empty urls of a list of detail records.
UrlsOfDetails(details) == {DetailUrl(details[k]) : k \in 1..Len(details)} \ {<< >>}

\* The detail record of a stream: the one check_stream returned for it.
RecordOf(details, info) ==
    details[CHOOSE k \in 1..Len(details) : details[k] \in ProbeResults(info)]

\* The last stream, in the order of submission, with this url.
LastStreamWith(streams, url) == Max({k \in 1..Len(streams) : streams[k].url = url})

\* The per-url status map of the same outcomes collected in the order of
\* submission.
MapInSubmissionOrder(details, streams) ==
    [url \in UrlsOfDetails(details) |->
        StatusOf(RecordOf(details, streams[LastStreamWith(streams, url)]))]

\* The counters the outcomes give, in whatever order.
CountersOfOutcomes(rs) ==
    /\ rs.total = Len(rs.details)
    /\ rs.working = Cardinality({k \in 1..Len(rs.details) : rs.details[k].working})
    /\ rs.failed = Cardinality({k \in 1..Len(rs.details) : ~rs.details[k].working})

\* The keys of the map are the non-empty urls of the detail records, each
\* with "ok" or "failed".
KeysAreDetailUrls(rs) ==
    /\ DOMAIN rs.stations = UrlsOfDetails(rs.details)
    /\ \A url \in DOMAIN rs.stations : rs.stations[url] \in {"ok", "failed"}

\* C22: in the file a validation run wrote, the counters are those of the
\* outcomes, the keys of the status map are the non-empty urls of the detail
\* records, each with "ok" or "failed", and the map is the one the same
\* outcomes give when the tasks complete in the order of submission: the
\* order of completion makes no difference, also when one url is in more
\* than one stream.
C22_OrderOfCompletionIsImmaterial ==
    ResultsWritten =>
        /\ CountersOfOutcomes(disk[RESULTS_FILE])
        /\ KeysAreDetailUrls(disk[RESULTS_FILE])
        /\ disk[RESULTS_FILE].stations
              = MapInSubmissionOrder(disk[RESULTS_FILE].details, streams_to_check)

(***************************************************************************)
(* C23. An #EXTINF line the pattern does not match changes nothing: it     *)
(* starts no entry and leaves a pending entry as it is.                    *)
(***************************************************************************)

\* The lines of the pool that are #EXTINF: lines EXTINF_PATTERN does not
\* match.
UnmatchedExtinfLines ==
    {raw \in LinePool :
        /\ StartsWith(Strip(raw), ExtinfPrefix)
        /\ ExtinfSearch(Strip(raw)) = None}

IsUnmatchedExtinf(raw) == raw \in UnmatchedExtinfLines

\* This step reads the line raw.
Reads(raw) == parse_pc = "reading" /\ file_lines' = Append(file_lines, raw)

\* Reading an unmatched #EXTINF line leaves the stations and the pending
\* entry, if there is one, as they were.
UnmatchedExtinfChangesNothing ==
    \A raw \in UnmatchedExtinfLines : Reads(raw) => parse_state' = parse_state

\* As long as no #EXTINF line read was matched, nothing is pending and no
\* station was recorded, whatever url lines were read.
NoEntryWithoutMatch ==
    (\A k \in 1..Len(file_lines) : ~IsMatchedExtinf(file_lines[k])) => parse_state = ParseStart

\* C23: an #EXTINF line that fails the metadata match leaves the state of
\* the loop unchanged: it starts no entry, so a url line after it with
\* nothing pending gives no station, and an entry that was pending stays
\* pending, unaltered.
C23_UnmatchedExtinfIsDropped == []NoEntryWithoutMatch /\ [][UnmatchedExtinfChangesNothing]_vars

\* An unmatched #EXTINF line and a url line gave no station; then a matched
\* #EXTINF line, an unmatched one and a url line gave one station, with the
\* metadata of the matched line.
C23_Witness ==
    /\ Len(file_lines) = 5
    /\ IsUnmatchedExtinf(file_lines[1]) /\ IsUrlLine(file_lines[2])
    /\ IsMatchedExtinf(file_lines[3])
    /\ IsUnmatchedExtinf(file_lines[4]) /\ IsUrlLine(file_lines[5])
    /\ Len(parse_state.stations) = 1
    /\ BuiltFromExtinf(parse_state.stations[1], file_lines[3])
    /\ parse_state.stations[1].url = UrlOfLine[file_lines[5]]
    /\ parse_state.current_station = None

(***************************************************************************)
(* C24. The bitrate of a parsed entry: a number of the url inside          *)
(* 32..1411, else 128 for an icecast url, else the default of the format,  *)
(* and 0 only for a format that is Unknown.                                *)
(***************************************************************************)

\* The numbers the bitrate patterns find in the lower-cased url u, one per
\* pattern that matches.
UrlNumbers(u) ==
    {BitrateGroup(u, BITRATE_PATTERNS[p]) : p \in 1..Len(BITRATE_PATTERNS)} \ {-1}

\* Those of them that are inside the accepted range.
NumbersInRange(u) == {b \in UrlNumbers(u) : b \in 32..1411}

\* The two, and whether the url names icecast, for each line of the model.
UrlNumbersTable == [l \in StrippedPool |-> UrlNumbers(Lower(l))]
NumbersInRangeTable == [l \in StrippedPool |-> NumbersInRange(Lower(l))]
IcecastTable == [l \in StrippedPool |-> Contains(Lower(l), IcecastLit)]

\* The default bitrates AUDIO_FORMATS gives for the format name fmt; none
\* for "Unknown".
DefaultsOf(fmt) ==
    {AUDIO_FORMATS[k][2][2] : k \in {j \in 1..Len(AUDIO_FORMATS) : AUDIO_FORMATS[j][2][1] = fmt}}

\* The bitrate of station st is the one its url, with the numbers in_range
\* and naming icecast or not, and its format call for.
BitrateAsDocumented(st, in_range, icecast) ==
    /\ st.bitrate \in {0} \cup 32..1411
    /\ in_range # {} => st.bitrate \in in_range
    /\ (in_range = {} /\ icecast) => st.bitrate = 128
    /\ (in_range = {} /\ ~icecast /\ st.format # "Unknown")
          => st.bitrate \in DefaultsOf(st.format)
    /\ st.bitrate = 0 <=> (in_range = {} /\ ~icecast /\ st.format = "Unknown")

\* C24: the bitrate of every parsed entry is 0 or an integer of 32..1411: a
\* number extracted from the url when it is inside that range, otherwise 128
\* for an icecast url, otherwise the default bitrate of the inferred format,
\* and 0 exactly when none of these applies, the format being Unknown.
C24_BitrateInRangeOrZero ==
    \A k \in 1..Len(parse_state.stations) :
        BitrateAsDocumented(parse_state.stations[k],
                            NumbersInRangeTable[parse_state.stations[k].url],
                            IcecastTable[parse_state.stations[k].url])

\* Two entries were parsed: one whose url has a number under the range and a
\* FLAC extension, with the FLAC default, and one whose url has a number
\* just over the range and nothing else, with 0 and format Unknown.
C24_Witness ==
    /\ Len(parse_state.stations) = 2
    /\ UrlNumbersTable[parse_state.stations[1].url] = {20}
    /\ parse_state.stations[1].format = "FLAC"
    /\ parse_state.stations[1].bitrate = 960
    /\ UrlNumbersTable[parse_state.stations[2].url] = {1412}
    /\ parse_state.stations[2].format = "Unknown"
    /\ parse_state.stations[2].bitrate = 0

=============================================================================
